---- MODULE Spec2Model ----
(***************************************************************************)
(* Finding normalization and triage engine of OpenAudit                    *)
(* (src/agents/triage.py, src/agents/ollama_client.py).                    *)
(*                                                                         *)
(* JSON values are tagged records, so that the Python type tests           *)
(* (isinstance, truthiness, "x or y") are decided by the tag.  Floats are  *)
(* held in fixed point: the float c is the integer c * Scale.  String      *)
(* methods (strip, upper, lower, isdigit, float) are tables over the       *)
(* strings that occur in the model.                                        *)
(***************************************************************************)
EXTENDS Integers, Sequences, FiniteSets, TLC

---------------------------------------------------------------------------
(* JSON scalars: None, str, int/float *)

None == [k |-> "none", s |-> "", n |-> 0]
Str(x) == [k |-> "str", s |-> x, n |-> 0]
Num(i) == [k |-> "num", s |-> "", n |-> i]

IsNone(v) == v.k = "none"
IsStr(v) == v.k = "str"
IsNum(v) == v.k = "num"

\* bool(v)
Truthy(v) == (v.k = "str" /\ v.s # "") \/ (v.k = "num" /\ v.n # 0)

\* a or b
Or(a, b) == IF Truthy(a) THEN a ELSE b

\* a list-valued key: absent/None, a list, or a value of another type
NoList == [k |-> "none", items |-> <<>>]
List(xs) == [k |-> "list", items |-> xs]
NotAList == [k |-> "str", items |-> <<>>]
IsList(l) == l.k = "list"
TruthyList(l) == (l.k = "list" /\ l.items # <<>>) \/ l.k = "str"

\* fixed point: the float c is held as c * Scale
Scale == 100 * 100

---------------------------------------------------------------------------
(* str.strip, str.upper, str.lower, str.isdigit, int(str), float(str) *)

Strip(s) ==
    CASE s = " high " -> "high"
      [] s = " Reentrancy " -> "Reentrancy"
      [] s = " Tx Origin " -> "Tx Origin"
      [] s = " 0.5 " -> "0.5"
      [] OTHER -> s

Upper(s) ==
    CASE s = "High" -> "HIGH"
      [] s = "high" -> "HIGH"
      [] s = "Medium" -> "MEDIUM"
      [] s = "medium" -> "MEDIUM"
      [] s = "Low" -> "LOW"
      [] s = "info" -> "INFO"
      [] s = "Info" -> "INFO"
      [] s = "Critical" -> "CRITICAL"
      [] s = "major" -> "MAJOR"
      [] s = "bogus" -> "BOGUS"
      [] s = "certain" -> "CERTAIN"
      [] s = "n/a" -> "N/A"
      [] s = "abc" -> "ABC"
      [] s = "Severe" -> "SEVERE"
      [] OTHER -> s

Lower(s) ==
    CASE s = "Reentrancy" -> "reentrancy"
      [] s = "REENTRANCY" -> "reentrancy"
      [] s = " Reentrancy " -> " reentrancy "
      [] s = "Tx Origin" -> "tx origin"
      [] s = "Untitled finding" -> "untitled finding"
      [] s = "A.sol" -> "a.sol"
      [] s = "B.sol" -> "b.sol"
      [] s = "Slither" -> "slither"
      [] s = "Aderyn" -> "aderyn"
      [] OTHER -> s

\* s.isdigit() and int(s)
DigitStrings == ("42" :> 42) @@ ("7" :> 7) @@ ("0" :> 0)
IsDigit(s) == s \in DOMAIN DigitStrings

\* float(s), in fixed point; strings outside the table raise ValueError
FloatStrings ==
    ("0.5" :> 5000) @@ ("0" :> 0) @@ ("95" :> 95 * Scale) @@ ("0.0" :> 0)
    @@ ("250" :> 250 * Scale) @@ ("-1" :> 0 - Scale) @@ ("1" :> Scale)

---------------------------------------------------------------------------
(* Severity / confidence canon: triage.py 12-41, 307-335 *)

SEVERITY_ALIASES ==
    ("CRIT" :> "CRITICAL") @@ ("CRITICAL" :> "CRITICAL") @@ ("SEVERE" :> "CRITICAL")
    @@ ("HIGH" :> "HIGH") @@ ("MAJOR" :> "HIGH")
    @@ ("MEDIUM" :> "MEDIUM") @@ ("MED" :> "MEDIUM") @@ ("MODERATE" :> "MEDIUM")
    @@ ("LOW" :> "LOW") @@ ("MINOR" :> "LOW")
    @@ ("INFO" :> "INFORMATIONAL") @@ ("INFORMATIONAL" :> "INFORMATIONAL")
    @@ ("NONE" :> "INFORMATIONAL")

CONFIDENCE_ALIASES ==
    ("LOW" :> 3000) @@ ("MEDIUM" :> 6000) @@ ("HIGH" :> 8500) @@ ("CERTAIN" :> 9500)

SEVERITY_SCORES ==
    ("CRITICAL" :> 4) @@ ("HIGH" :> 3) @@ ("MEDIUM" :> 2) @@ ("LOW" :> 1)
    @@ ("INFORMATIONAL" :> 0)

_normalize_severity(value) ==
    IF IsNone(value) THEN None
    ELSE IF IsStr(value)
    THEN LET key == Upper(Strip(value.s))
         IN IF key \in DOMAIN SEVERITY_ALIASES THEN Str(SEVERITY_ALIASES[key]) ELSE None
    ELSE None

Min(a, b) == IF a < b THEN a ELSE b
Max(a, b) == IF a > b THEN a ELSE b

\* ScaleAndClamp with the percentage test made inclusive at 1.0
ScaleAndClampFromOne(normalized) ==
    LET scaled == IF normalized >= Scale /\ normalized <= 100 * Scale
                  THEN normalized \div 100
                  ELSE normalized
    IN Max(0, Min(Scale, scaled))

\* the shared tail of both branches: scale a percentage, then clamp to [0, 1]
ScaleAndClamp(normalized) ==
    LET scaled == IF normalized > Scale /\ normalized <= 100 * Scale
                  THEN normalized \div 100
                  ELSE normalized
    IN Max(0, Min(Scale, scaled))

_normalize_confidence(value) ==
    IF IsNone(value) THEN None
    ELSE IF IsNum(value) THEN Num(ScaleAndClamp(value.n))
    ELSE IF IsStr(value)
    THEN LET text == Upper(Strip(value.s))
         IN IF text \in DOMAIN CONFIDENCE_ALIASES THEN Num(CONFIDENCE_ALIASES[text])
            ELSE IF text \in DOMAIN FloatStrings THEN Num(ScaleAndClamp(FloatStrings[text]))
            ELSE None
    ELSE None

---------------------------------------------------------------------------
(* Raw tool records, locations and findings *)

\* one entry of raw["instances"]; k # "dict" is an entry that is not an object
Inst0 ==
    [k |-> "dict", contract_path |-> None, file |-> None, line_no |-> None,
     line |-> None, src |-> None, src_char |-> None]

\* the value under "lines" of a source mapping: absent, int, str or list
NoLines == [k |-> "none", s |-> "", n |-> 0, items |-> <<>>]
LinesInt(i) == [k |-> "num", s |-> "", n |-> i, items |-> <<>>]
LinesStr(x) == [k |-> "str", s |-> x, n |-> 0, items |-> <<>>]
LinesList(xs) == [k |-> "list", s |-> "", n |-> 0, items |-> xs]
LinesOf(v) == [k |-> v.k, s |-> v.s, n |-> v.n, items |-> <<>>]
TruthyLines(l) ==
    \/ l.k = "str" /\ l.s # ""
    \/ l.k = "num" /\ l.n # 0
    \/ l.k = "list" /\ l.items # <<>>

\* a source_mapping value; k = "none": absent or {}, k = "str": not an object
NoMapping ==
    [k |-> "none", filename_relative |-> None, filename |-> None, file |-> None,
     contract_path |-> None, lines |-> NoLines, line |-> None, src |-> None,
     source |-> None]
Mapping0 == [NoMapping EXCEPT !.k = "dict"]
\* a.get("source_mapping") or a.get("sourceMapping")
MappingOr(a, b) == IF a.k # "none" THEN a ELSE b

\* one entry of finding["elements"]
Elem0 == [k |-> "dict", source_mapping |-> NoMapping, sourceMapping |-> NoMapping]

\* a location record; start_line, end_line, snippet are set by _attach_snippets.
\* k # "dict" is an entry of "locations" that is not an object.
Loc0 ==
    [k |-> "dict", file |-> None, line |-> None, span |-> None,
     start_line |-> None, end_line |-> None, snippet |-> None]
NotALoc == [Loc0 EXCEPT !.k = "str"]

\* a raw tool record (the keys the engine reads, and the two of scenario A it
\* does not); k = "none": absent or {}, k = "str": a value that is not an object
Raw0 ==
    [k |-> "dict", title |-> None, check |-> None, name |-> None,
     detector_name |-> None, id |-> None, severity |-> None, impact |-> None,
     confidence |-> None, certainty |-> None, description |-> None,
     details |-> None, elements |-> NoList, instances |-> NoList,
     source_mapping |-> NoMapping, sourceMapping |-> NoMapping,
     file |-> None, line_no |-> None]
NoRaw == [Raw0 EXCEPT !.k = "none"]
NotARaw == [Raw0 EXCEPT !.k = "str"]

\* a finding dict
Finding0 ==
    [title |-> None, check |-> None, name |-> None, severity |-> None,
     impact |-> None, confidence |-> None, certainty |-> None,
     description |-> None, details |-> None, remediation |-> None,
     repro |-> None, source |-> None, sources |-> NoList, locations |-> NoList,
     elements |-> NoList, raw |-> NoRaw]

---------------------------------------------------------------------------
(* Location extractor: triage.py 338-424 *)

_add_location(locations, file_path, line, span) ==
    IF IsNone(file_path) /\ IsNone(line) /\ IsNone(span) THEN locations
    ELSE Append(locations,
                [Loc0 EXCEPT !.file = IF Truthy(file_path) THEN file_path ELSE None,
                             !.line = line,
                             !.span = IF Truthy(span) THEN span ELSE None])

\* the loop over a "lines" list
RECURSIVE AddMappingLines(_, _, _, _)
AddMappingLines(locations, lines, file_path, span) ==
    IF lines = <<>> THEN locations
    ELSE LET raw_line == Head(lines)
             line == IF IsStr(raw_line) /\ IsDigit(raw_line.s)
                     THEN Num(DigitStrings[raw_line.s])
                     ELSE raw_line
             added == IF IsNum(line)
                      THEN _add_location(locations, file_path, line, span)
                      ELSE locations
         IN AddMappingLines(added, Tail(lines), file_path, span)

_extract_locations_from_mapping(locations, mapping) ==
    LET file_path == Or(Or(Or(mapping.filename_relative, mapping.filename),
                           mapping.file), mapping.contract_path)
        lines == IF TruthyLines(mapping.lines) THEN mapping.lines
                 ELSE LinesOf(mapping.line)
        span == Or(mapping.src, mapping.source)
    IN IF lines.k = "list"
       THEN AddMappingLines(locations, lines.items, file_path, span)
       ELSE IF lines.k = "num"
       THEN _add_location(locations, file_path, Num(lines.n), span)
       ELSE IF lines.k = "str" /\ IsDigit(lines.s)
       THEN _add_location(locations, file_path, Num(DigitStrings[lines.s]), span)
       ELSE _add_location(locations, file_path, None, span)

\* the loop over raw["instances"]
RECURSIVE AddInstances(_, _)
AddInstances(locations, instances) ==
    IF instances = <<>> THEN locations
    ELSE LET instance == Head(instances)
             file_path == Or(instance.contract_path, instance.file)
             raw_line == Or(instance.line_no, instance.line)
             line == IF IsStr(raw_line) /\ IsDigit(raw_line.s)
                     THEN Num(DigitStrings[raw_line.s])
                     ELSE raw_line
             span == Or(instance.src, instance.src_char)
             added == IF instance.k # "dict" THEN locations
                      ELSE _add_location(locations, file_path, line, span)
         IN AddInstances(added, Tail(instances))

\* the loop over finding["elements"]
RECURSIVE AddElements(_, _)
AddElements(locations, elements) ==
    IF elements = <<>> THEN locations
    ELSE LET element == Head(elements)
             mapping == MappingOr(element.source_mapping, element.sourceMapping)
             added == IF element.k = "dict" /\ mapping.k = "dict"
                      THEN _extract_locations_from_mapping(locations, mapping)
                      ELSE locations
         IN AddElements(added, Tail(elements))

\* UniqueLocations without the seen test
KeepAllLocations(locations, seen) == locations

\* the closing loop: first-seen order, one entry per (file, line, span)
RECURSIVE UniqueLocations(_, _)
UniqueLocations(locations, seen) ==
    IF locations = <<>> THEN <<>>
    ELSE LET location == Head(locations)
             key == <<location.file, location.line, location.span>>
         IN IF key \in seen THEN UniqueLocations(Tail(locations), seen)
            ELSE <<location>> \o UniqueLocations(Tail(locations), seen \cup {key})

\* finding.get("raw") or {}
RawOrEmpty(finding) == IF finding.raw.k = "dict" THEN finding.raw ELSE NoRaw

\* raw.get(...) on a raw that is neither an object nor falsy: AttributeError
RawGetRaises(finding) == finding.raw.k = "str"

\* lines 384-410: the locations of the three shapes, in order
CollectLocations(finding) ==
    LET raw == RawOrEmpty(finding)
        from_instances == IF IsList(raw.instances)
                          THEN AddInstances(<<>>, raw.instances.items)
                          ELSE <<>>
        source_mapping == MappingOr(raw.source_mapping, raw.sourceMapping)
        from_mapping == IF source_mapping.k = "dict"
                        THEN _extract_locations_from_mapping(from_instances, source_mapping)
                        ELSE from_instances
        from_elements == IF IsList(finding.elements)
                         THEN AddElements(from_mapping, finding.elements.items)
                         ELSE from_mapping
    IN from_elements

_extract_locations(finding) == UniqueLocations(CollectLocations(finding), {})

---------------------------------------------------------------------------
(* Finding normalizer: triage.py 441-469, 531-546 *)

\* [source for source in sources if source]
RECURSIVE TruthyOnly(_)
TruthyOnly(xs) ==
    IF xs = <<>> THEN <<>>
    ELSE (IF Truthy(Head(xs)) THEN <<Head(xs)>> ELSE <<>>) \o TruthyOnly(Tail(xs))

\* not normalized.get("locations")
LocationsMissing(finding) == ~TruthyList(finding.locations)

\* lines 443-448: the title of a normalized finding
CanonTitle(finding) ==
    Or(Or(Or(finding.title, finding.check), finding.name), Str("Untitled finding"))

\* CanonSeverity that passes the given severity through
CanonSeverityAsGiven(finding) == Or(finding.severity, Str("LOW"))

\* lines 451-454: the severity of a normalized finding
CanonSeverity(finding) ==
    LET own == _normalize_severity(finding.severity)
        severity == IF IsNone(own) THEN _normalize_severity(finding.impact) ELSE own
    IN Or(severity, Str("LOW"))

_normalize_existing_finding(finding) ==
    LET impact_severity == _normalize_severity(finding.impact)
        titled == [finding EXCEPT
                     !.title = CanonTitle(finding),
                     !.severity = CanonSeverity(finding),
                     !.impact = IF IsNone(impact_severity) THEN finding.impact
                                ELSE impact_severity,
                     !.confidence = _normalize_confidence(finding.confidence)]
        located == IF LocationsMissing(titled)
                   THEN [titled EXCEPT !.locations = List(_extract_locations(titled))]
                   ELSE titled
    IN IF IsList(located.sources)
       THEN [located EXCEPT !.sources = List(TruthyOnly(located.sources.items))]
       ELSE located

\* the exception _normalize_existing_finding raises on this finding, or "none"
NormalizeExistingRaises(finding) ==
    IF LocationsMissing(finding) /\ RawGetRaises(finding) THEN "AttributeError"
    ELSE "none"

_normalize_finding(finding, source, severity) ==
    _normalize_existing_finding(
        [Finding0 EXCEPT
           !.title = Or(Or(finding.title, finding.check), finding.name),
           !.impact = Or(Or(finding.impact, finding.severity), severity),
           !.severity = Or(finding.severity, severity),
           !.confidence = Or(finding.confidence, finding.certainty),
           !.description = Or(finding.description, finding.details),
           !.elements = IF finding.elements.k = "none" THEN List(<<>>)
                        ELSE finding.elements,
           !.source = source,
           !.raw = finding])

\* a finding dict read as a raw record: the keys both have, the others absent
FindingAsRaw(finding) ==
    [Raw0 EXCEPT
       !.title = finding.title, !.check = finding.check, !.name = finding.name,
       !.severity = finding.severity, !.impact = finding.impact,
       !.confidence = finding.confidence, !.certainty = finding.certainty,
       !.description = finding.description, !.details = finding.details,
       !.elements = finding.elements]

---------------------------------------------------------------------------
(* Score: triage.py 472-483 *)

\* int(round(a / d)) for a >= 0: Python rounds halves to the even neighbour
RoundHalfEven(a, d) ==
    LET q == a \div d
        r == a % d
    IN IF 2 * r < d THEN q
       ELSE IF 2 * r > d THEN q + 1
       ELSE IF q % 2 = 0 THEN q ELSE q + 1

_confidence_score(value) ==
    LET normalized == _normalize_confidence(value)
    IN IF IsNone(normalized) THEN 1 ELSE RoundHalfEven(normalized.n * 3, Scale)

_rank_score(finding) ==
    LET severity == Or(_normalize_severity(finding.severity), Str("LOW"))
        severity_score == IF severity.s \in DOMAIN SEVERITY_SCORES
                          THEN SEVERITY_SCORES[severity.s] ELSE 1
    IN severity_score * 3 + _confidence_score(finding.confidence)

---------------------------------------------------------------------------
(* Deduplicator: triage.py 486-528 *)

\* str(v)
PyStr(v) == IF IsNum(v) THEN ToString(v.n) ELSE v.s

\* finding.get("locations") or [], as the list it is iterated as
LocationsOrEmpty(finding) ==
    IF IsList(finding.locations) THEN finding.locations.items ELSE <<>>

key_for(finding) ==
    LET title == Lower(Strip(Or(finding.title, Str("")).s))
        locations == LocationsOrEmpty(finding)
        first == IF locations = <<>> THEN Loc0 ELSE Head(locations)
        file_path == IF locations = <<>> THEN ""
                     ELSE Lower(Or(first.file, Str("")).s)
        line == IF locations = <<>> THEN "" ELSE PyStr(Or(first.line, Str("")))
    IN title \o "|" \o file_path \o "|" \o line

\* the exception key_for raises on this finding, or "none"
KeyForRaises(finding) ==
    IF Truthy(finding.title) /\ ~IsStr(finding.title) THEN "AttributeError"
    ELSE IF finding.locations.k = "str" THEN "AttributeError"
    ELSE IF LocationsOrEmpty(finding) = <<>> THEN "none"
    ELSE IF Head(LocationsOrEmpty(finding)).k # "dict" THEN "AttributeError"
    ELSE IF Truthy(Head(LocationsOrEmpty(finding)).file)
            /\ ~IsStr(Head(LocationsOrEmpty(finding)).file) THEN "AttributeError"
    ELSE "none"

\* the sources list built at a merge
MergedSources(primary, secondary) ==
    LET first == IF Truthy(primary.source) THEN <<primary.source>> ELSE <<>>
    IN IF Truthy(secondary.source) /\ (first = <<>> \/ secondary.source # first[1])
       THEN Append(first, secondary.source)
       ELSE first

\* FillGap that lets the secondary's value overwrite
FillGapOverwrite(mine, theirs) == IF Truthy(theirs) THEN theirs ELSE mine

\* one of description, impact, remediation, repro at a merge
FillGap(mine, theirs) == IF ~Truthy(mine) /\ Truthy(theirs) THEN theirs ELSE mine

\* MergeLocations that keeps the primary's locations only
MergeLocationsOfPrimary(primary, secondary) == LocationsOrEmpty(primary)

\* lines 512-514: the locations of a merged finding
MergeLocations(primary, secondary) ==
    LocationsOrEmpty(primary) \o LocationsOrEmpty(secondary)

\* the body of the loop when the key is already present
MergeFindings(current, finding) ==
    LET newer == _rank_score(finding) > _rank_score(current)
        primary == IF newer THEN finding ELSE current
        secondary == IF newer THEN current ELSE finding
    IN [primary EXCEPT
          !.locations = List(MergeLocations(primary, secondary)),
          !.sources = List(MergedSources(primary, secondary)),
          !.description = FillGap(primary.description, secondary.description),
          !.impact = FillGap(primary.impact, secondary.impact),
          !.remediation = FillGap(primary.remediation, secondary.remediation),
          !.repro = FillGap(primary.repro, secondary.repro)]

\* KeyIndex that looks at the newest entry only
KeyIndexOfLast(deduped, key) ==
    IF deduped # <<>> /\ deduped[Len(deduped)].key = key THEN Len(deduped) ELSE 0

\* the position of key in the insertion-ordered dict, 0 when absent
KeyIndex(deduped, key) ==
    IF \E i \in 1..Len(deduped) : deduped[i].key = key
    THEN CHOOSE i \in 1..Len(deduped) : deduped[i].key = key
    ELSE 0

RECURSIVE DedupeLoop(_, _)
DedupeLoop(deduped, findings) ==
    IF findings = <<>> THEN deduped
    ELSE LET finding == Head(findings)
             key == key_for(finding)
             i == KeyIndex(deduped, key)
             next == IF i = 0
                     THEN Append(deduped, [key |-> key, value |-> finding])
                     ELSE [deduped EXCEPT
                             ![i].value = MergeFindings(deduped[i].value, finding)]
         IN DedupeLoop(next, Tail(findings))

_dedupe_findings(findings) ==
    LET deduped == DedupeLoop(<<>>, findings)
    IN [i \in 1..Len(deduped) |-> deduped[i].value]

\* the first exception raised over a list, or "none"
RECURSIVE FirstRaise(_)
FirstRaise(raises) ==
    IF raises = <<>> THEN "none"
    ELSE IF Head(raises) # "none" THEN Head(raises)
    ELSE FirstRaise(Tail(raises))

DedupeRaises(findings) ==
    FirstRaise([i \in 1..Len(findings) |-> KeyForRaises(findings[i])])

---------------------------------------------------------------------------
(* Evidence: triage.py 427-438 *)

_has_evidence(finding) ==
    LET raw == RawOrEmpty(finding)
        source_mapping == MappingOr(raw.source_mapping, raw.sourceMapping)
    IN \/ IsList(finding.locations) /\ finding.locations.items # <<>>
       \/ IsList(raw.instances) /\ raw.instances.items # <<>>
       \/ source_mapping.k = "dict" /\ TruthyLines(source_mapping.lines)

HasEvidenceRaises(finding) ==
    IF ~(IsList(finding.locations) /\ finding.locations.items # <<>>)
       /\ RawGetRaises(finding)
    THEN "AttributeError" ELSE "none"

\* [x for x in xs if keep(x)], keep given as the set of kept positions
RECURSIVE SelectAt(_, _, _)
SelectAt(xs, kept, i) ==
    IF i > Len(xs) THEN <<>>
    ELSE (IF i \in kept THEN <<xs[i]>> ELSE <<>>) \o SelectAt(xs, kept, i + 1)

\* evidence_filtered or deduped
EvidenceFilter(deduped) ==
    LET evidence_filtered ==
            SelectAt(deduped, {i \in 1..Len(deduped) : _has_evidence(deduped[i])}, 1)
    IN IF evidence_filtered # <<>> THEN evidence_filtered ELSE deduped

EvidenceRaises(deduped) ==
    FirstRaise([i \in 1..Len(deduped) |-> HasEvidenceRaises(deduped[i])])

---------------------------------------------------------------------------
(* Rule filter: triage.py 45-118, 128-248 *)

\* _canonical_identifier: lowercase, runs of non-alphanumerics become one "-"
_canonical_identifier(text) ==
    CASE text = "Reentrancy" -> "reentrancy"
      [] text = "REENTRANCY" -> "reentrancy"
      [] text = " Reentrancy " -> "reentrancy"
      [] text = "Tx Origin" -> "tx-origin"
      [] text = "Untitled finding" -> "untitled-finding"
      [] text = "Solc Version" -> "solc-version"
      [] text = "--" -> ""
      [] OTHER -> text

\* pattern in identifier, for canonical strings
IsSubstring(pattern, identifier) ==
    \/ pattern = identifier
    \/ <<pattern, identifier>> \in
          { <<"reentrancy", "reentrancy-eth">>, <<"reentrancy", "reentrancy-benign">>,
            <<"pragma", "floating-pragma">>, <<"dos", "dos-gas-limit">> }

\* _parse_patterns on a list: the stripped, non-empty items
RECURSIVE _parse_patterns(_)
_parse_patterns(value) ==
    IF value = <<>> THEN <<>>
    ELSE (IF Strip(Head(value)) # "" THEN <<Strip(Head(value))>> ELSE <<>>)
         \o _parse_patterns(Tail(value))

NoPatterns == [allow |-> <<>>, deny |-> <<>>]

DEFAULT_FILTERS ==
    [min_severity |-> Str("MEDIUM"),
     min_confidence |-> Num(6000),
     default |-> NoPatterns,
     tools |->
        ("slither" :>
            [allow |-> << "reentrancy", "arbitrary-send", "tx-origin", "delegatecall",
                          "weak-prng", "incorrect-equality", "oracle",
                          "price-manipulation", "access-control", "uninitialized",
                          "selfdestruct", "suicidal", "proxy", "upgrade", "signature",
                          "replay", "dos", "denial-of-service", "front-run", "frontrun",
                          "mev" >>,
             deny |-> << "solc-version", "naming-convention", "constable-states",
                         "state-variable-could-be-constant", "dead-code",
                         "unused-return", "pragma", "immutable-states",
                         "redundant-statements" >>])
        @@ ("aderyn" :>
            [allow |-> << "tx-origin", "reentrancy", "access-control", "authorization",
                          "arbitrary-send", "delegatecall", "selfdestruct", "oracle",
                          "price-manipulation", "uninitialized", "proxy", "upgrade",
                          "signature", "replay", "dos", "denial-of-service", "front-run",
                          "frontrun", "mev" >>,
             deny |-> << "empty-require-revert", "modifier-used-only-once",
                         "state-variable-could-be-constant",
                         "public-function-not-used-internally", "unused-function",
                         "unused-variable" >>])]

\* os.getenv of the two threshold overrides: unset
NoOverrides == [OPENAUDIT_MIN_SEVERITY |-> None, OPENAUDIT_MIN_CONFIDENCE |-> None]

\* _severity_threshold with the minimum itself excluded
SeverityThresholdExclusive(config, environ) ==
    LET normalized == _normalize_severity(config.min_severity)
    IN IF IsNone(normalized) THEN None
       ELSE Num(SEVERITY_SCORES[normalized.s] + 1)

_severity_threshold(config, environ) ==
    LET override == environ.OPENAUDIT_MIN_SEVERITY
        raw == IF ~IsNone(override) THEN override ELSE config.min_severity
        normalized == _normalize_severity(raw)
    IN IF IsNone(raw) THEN None
       ELSE IF IsNum(raw) THEN raw
       ELSE IF ~IsNone(normalized) THEN Num(SEVERITY_SCORES[normalized.s])
       ELSE None

_confidence_threshold(config, environ) ==
    LET override == environ.OPENAUDIT_MIN_CONFIDENCE
        raw == IF ~IsNone(override) THEN override ELSE config.min_confidence
    IN IF IsNone(raw) THEN None
       ELSE IF IsNum(raw) THEN raw
       ELSE IF raw.s \in DOMAIN FloatStrings THEN Num(FloatStrings[raw.s])
       ELSE None

_finding_identifiers(finding) ==
    LET raw == RawOrEmpty(finding)
    IN <<finding.title, finding.check, finding.name,
         raw.check, raw.detector_name, raw.id, raw.name, raw.title>>

\* canonical forms of the identifiers that are set
CanonicalIdentifiers(identifiers) ==
    { _canonical_identifier(PyStr(identifiers[i])) :
        i \in {j \in 1..Len(identifiers) : Truthy(identifiers[j])} }

\* _matches_patterns without the test for a pattern that canonicalizes to ""
MatchesEmptyToo(identifiers, patterns) ==
    \E i \in 1..Len(patterns) :
        \E identifier \in CanonicalIdentifiers(identifiers) :
            \/ _canonical_identifier(patterns[i]) = ""
            \/ IsSubstring(_canonical_identifier(patterns[i]), identifier)

_matches_patterns(identifiers, patterns) ==
    \E i \in 1..Len(patterns) :
        /\ _canonical_identifier(patterns[i]) # ""
        /\ \E identifier \in CanonicalIdentifiers(identifiers) :
              IsSubstring(_canonical_identifier(patterns[i]), identifier)

\* whether filter_findings keeps this finding
FilterKeeps(finding, config, environ) ==
    LET source == Lower(Or(finding.source, Str("default")).s)
        tool_config == IF source \in DOMAIN config.tools THEN config.tools[source]
                       ELSE NoPatterns
        tool_allow == _parse_patterns(tool_config.allow)
        allow == IF tool_allow = <<>> THEN _parse_patterns(config.default.allow)
                 ELSE tool_allow
        deny == _parse_patterns(config.default.deny) \o _parse_patterns(tool_config.deny)
        identifiers == _finding_identifiers(finding)
        min_severity_score == _severity_threshold(config, environ)
        min_confidence == _confidence_threshold(config, environ)
        severity == Or(_normalize_severity(finding.severity), Str("LOW"))
        normalized_confidence == _normalize_confidence(finding.confidence)
        confidence == IF IsNone(normalized_confidence) THEN 5000
                      ELSE normalized_confidence.n
    IN /\ ~(deny # <<>> /\ _matches_patterns(identifiers, deny))
       /\ ~(allow # <<>> /\ ~_matches_patterns(identifiers, allow))
       /\ IsNone(min_severity_score)
            \/ SEVERITY_SCORES[severity.s] >= min_severity_score.n
       /\ IsNone(min_confidence) \/ confidence >= min_confidence.n

filter_findings(findings, config, environ) ==
    SelectAt(findings,
             {i \in 1..Len(findings) : FilterKeeps(findings[i], config, environ)}, 1)

\* the exception filter_findings raises on this finding, or "none"
FilterFindingRaises(finding) ==
    IF Truthy(finding.source) /\ ~IsStr(finding.source) THEN "AttributeError"
    ELSE IF RawGetRaises(finding) THEN "AttributeError"
    ELSE "none"

FilterRaises(findings) ==
    FirstRaise([i \in 1..Len(findings) |-> FilterFindingRaises(findings[i])])

---------------------------------------------------------------------------
(* Ranker: triage.py 595-597 *)

\* a descending sort that puts the later of two equal scores first
RECURSIVE SortedTiesReversed(_)
SortedTiesReversed(detectors) ==
    IF detectors = <<>> THEN <<>>
    ELSE LET rest == SortedTiesReversed(Tail(detectors))
             head == Head(detectors)
             ahead == {i \in 1..Len(rest) : _rank_score(rest[i]) >= _rank_score(head)}
         IN SelectAt(rest, ahead, 1) \o <<head>>
            \o SelectAt(rest, (1..Len(rest)) \ ahead, 1)

\* sorted(..., reverse=True) keeps equal scores in their original order
RECURSIVE SortedByScore(_)
SortedByScore(detectors) ==
    IF detectors = <<>> THEN <<>>
    ELSE LET rest == SortedByScore(Tail(detectors))
             head == Head(detectors)
             ahead == {i \in 1..Len(rest) : _rank_score(rest[i]) > _rank_score(head)}
         IN SelectAt(rest, ahead, 1) \o <<head>>
            \o SelectAt(rest, (1..Len(rest)) \ ahead, 1)

\* xs[:n], n of either sign
SliceTo(xs, n) ==
    LET stop == IF n >= 0 THEN Min(n, Len(xs)) ELSE Max(0, Len(xs) + n)
    IN SubSeq(xs, 1, stop)

heuristic_rank(detectors, max_issues) ==
    SliceTo(SortedByScore(detectors), max_issues)

---------------------------------------------------------------------------
(* Extractor: triage.py 549-592 *)

\* the object under "results": k = "absent" (the key is missing), "dict",
\* or "null" / "list" (a value that has no .get)
NoResults ==
    [k |-> "absent", findings |-> NoList, issues |-> NoList,
     vulnerabilities |-> NoList, detectors |-> NoList]

\* one of the four *_issues sections: k = "dict" for an object
NoSection == [k |-> "none", issues |-> NoList]
Section(xs) == [k |-> "dict", issues |-> List(xs)]

\* a tool report
Report0 ==
    [findings |-> NoList, issues |-> NoList, vulnerabilities |-> NoList,
     detectors |-> NoList, results |-> NoResults,
     high_issues |-> NoSection, medium_issues |-> NoSection,
     low_issues |-> NoSection, informational_issues |-> NoSection]

\* the probe of the four keys, in order, on a report or on its "results"
FirstList(obj) ==
    IF IsList(obj.findings) THEN obj.findings.items
    ELSE IF IsList(obj.issues) THEN obj.issues.items
    ELSE IF IsList(obj.vulnerabilities) THEN obj.vulnerabilities.items
    ELSE IF IsList(obj.detectors) THEN obj.detectors.items
    ELSE <<>>

_extract_list(report_json) ==
    LET candidates == FirstList(report_json)
    IN IF candidates # <<>> THEN candidates
       ELSE IF report_json.results.k = "dict" THEN FirstList(report_json.results)
       ELSE <<>>

\* results.get on a "results" that is no object
ExtractListRaises(report_json) ==
    IF FirstList(report_json) = <<>> /\ report_json.results.k \notin {"absent", "dict"}
    THEN "AttributeError" ELSE "none"

\* the issues of one severity section, [] unless the shapes match
SectionIssues(section) ==
    IF section.k = "dict" /\ IsList(section.issues) THEN section.issues.items ELSE <<>>

NormalizeAll(items, source, severity) ==
    [i \in 1..Len(items) |-> _normalize_finding(items[i], source, severity)]

\* extract_findings without the severity-bucketed pass
extract_findings_generic_pass(report_json, source) ==
    NormalizeAll(_extract_list(report_json), source, None)

extract_findings(report_json, source) ==
    NormalizeAll(_extract_list(report_json), source, None)
    \o NormalizeAll(SectionIssues(report_json.high_issues), source, Str("HIGH"))
    \o NormalizeAll(SectionIssues(report_json.medium_issues), source, Str("MEDIUM"))
    \o NormalizeAll(SectionIssues(report_json.low_issues), source, Str("LOW"))
    \o NormalizeAll(SectionIssues(report_json.informational_issues), source,
                    Str("INFORMATIONAL"))

\* every record extract_findings normalizes, in order
ExtractedItems(report_json) ==
    _extract_list(report_json)
    \o SectionIssues(report_json.high_issues)
    \o SectionIssues(report_json.medium_issues)
    \o SectionIssues(report_json.low_issues)
    \o SectionIssues(report_json.informational_issues)

\* finding.get on a record that is no object
ExtractRaises(report_json) ==
    IF ExtractListRaises(report_json) # "none" THEN ExtractListRaises(report_json)
    ELSE FirstRaise([i \in 1..Len(ExtractedItems(report_json)) |->
                        IF ExtractedItems(report_json)[i].k # "dict"
                        THEN "AttributeError" ELSE "none"])

---------------------------------------------------------------------------
(* Snippets: triage.py 43, 251-304 *)

SNIPPET_CONTEXT_LINES == 3

\* _resolve_file_path: files maps each path that is a file to its line count
_resolve_file_path(file_path, files) == file_path.s \in DOMAIN files

\* the location after location.update(snippet_info), unchanged when
\* _read_snippet returns None; the snippet text is the lines start..end of the file
_read_snippet(location, files) ==
    LET line == location.line.n
        length == IF _resolve_file_path(location.file, files)
                  THEN files[location.file.s] ELSE 0
        start_line == Max(1, line - SNIPPET_CONTEXT_LINES)
        end_line == Min(length, line + SNIPPET_CONTEXT_LINES)
    IN IF ~_resolve_file_path(location.file, files) THEN location
       ELSE IF line < 1 \/ line > length THEN location
       ELSE [location EXCEPT !.start_line = Num(start_line),
                             !.end_line = Num(end_line),
                             !.snippet = location.file]

\* the guard of the inner loop: a dict with a file and an int line
WantsSnippet(location) ==
    location.k = "dict" /\ Truthy(location.file) /\ IsNum(location.line)

AttachToFinding(finding, files) ==
    IF ~IsList(finding.locations) THEN finding
    ELSE [finding EXCEPT !.locations.items =
            [i \in 1..Len(@) |-> IF WantsSnippet(@[i]) /\ IsStr(@[i].file)
                                 THEN _read_snippet(@[i], files) ELSE @[i]]]

_attach_snippets(findings, files) ==
    [i \in 1..Len(findings) |-> AttachToFinding(findings[i], files)]

\* Path(file_path) on a file that is no string
AttachRaises(findings) ==
    IF \E i \in 1..Len(findings) :
          /\ IsList(findings[i].locations)
          /\ \E j \in 1..Len(findings[i].locations.items) :
                /\ WantsSnippet(findings[i].locations.items[j])
                /\ ~IsStr(findings[i].locations.items[j].file)
    THEN "TypeError" ELSE "none"

---------------------------------------------------------------------------
(* External classifier: triage.py 600-637, 669-698; ollama_client.py 14-40 *)

\* what a classifier call ends with: an exception class ("none" when it
\* returns), and the JSON value decoded from the reply: "objects" (a list of
\* objects, in findings), "object", "strings", "number" or "numbers"
Returned(json, findings) == [exc |-> "none", json |-> json, findings |-> findings]
Raised(exc) == [exc |-> exc, json |-> "none", findings |-> <<>>]

\* the classes named in the except clause, and the classes derived from them
CaughtClasses ==
    {"requests.RequestException", "requests.Timeout", "requests.ConnectionError",
     "requests.HTTPError", "requests.JSONDecodeError", "ValueError",
     "json.JSONDecodeError"}

\* the exception the loop over the decoded reply raises, or "none":
\* dict(x) of a string is a ValueError, of a number a TypeError, and a number
\* is not iterable
ResponseRaises(outcome) ==
    CASE outcome.json \in {"object", "strings"} -> "ValueError"
      [] outcome.json \in {"number", "numbers"} -> "TypeError"
      [] OTHER -> "none"

\* the exception raised inside the try block, or "none"
TryRaises(outcome) ==
    IF outcome.exc # "none" THEN outcome.exc ELSE ResponseRaises(outcome)

\* findings the classifier may answer with
ReplyFindings ==
    { <<>>,
      << [Finding0 EXCEPT !.title = Str("Reentrancy"), !.severity = Str("HIGH"),
                          !.confidence = Num(9000)] >>,
      << [Finding0 EXCEPT !.severity = Str("bogus"), !.confidence = Str("certain")],
         [Finding0 EXCEPT !.title = Str(""), !.name = Str("Tx Origin"),
                          !.severity = Str("Severe"), !.impact = Str("major")] >> }

\* call_llm: requests.post, raise_for_status, response.json(), the payload
\* lookups, json.loads(content)
CallLlmOutcomes ==
    { Raised("requests.Timeout"), Raised("requests.ConnectionError"),
      Raised("requests.HTTPError"), Raised("requests.JSONDecodeError"),
      Raised("KeyError"), Raised("ValueError") }
    \cup { Returned(j, <<>>) : j \in {"object", "strings", "number", "numbers"} }
    \cup { Returned("objects", fs) : fs \in ReplyFindings }

\* client.chat on a server that never answers: the timeout argument of
\* call_ollama is passed neither to ollama.Client nor to chat, so the call waits
NoAnswer == [exc |-> "none", json |-> "pending", findings |-> <<>>]

\* call_ollama: the library check, client.chat, json.loads(content)
CallOllamaOutcomes ==
    { Raised("RuntimeError"), Raised("ConnectionError"),
      Raised("ollama.ResponseError"), Raised("ValueError") }
    \cup { Returned(j, <<>>) : j \in {"object", "strings", "number", "numbers"} }
    \cup { Returned("objects", fs) : fs \in ReplyFindings }

---------------------------------------------------------------------------
(* Inputs *)

\* records per report in a pipeline run, and the largest max_issues
MaxAderyn == 1
MaxSlither == 1
MaxIssues == 2
\* records per report when the extractor and the deduplicator are called alone
MaxPerTool == 2

\* a report entry {contract_path, line_no}
At(path, line) == [Inst0 EXCEPT !.contract_path = Str(path), !.line_no = line]

\* scenario A, aderyn: {title: "Reentrancy", line_no: 42, file: "A.sol"}
ScenarioAderyn ==
    [Raw0 EXCEPT !.title = Str("Reentrancy"), !.line_no = Num(42), !.file = Str("A.sol")]

\* scenario A, slither: {check: "reentrancy-eth", impact: "High",
\* confidence: "Medium", instances: [{contract_path: "A.sol", line_no: 42}]}
ScenarioSlither ==
    [Raw0 EXCEPT !.check = Str("reentrancy-eth"), !.impact = Str("High"),
                 !.confidence = Str("Medium"),
                 !.instances = List(<< At("A.sol", Num(42)) >>)]

\* records of an aderyn report's high_issues section
AderynIssues ==
    { ScenarioAderyn,
      [Raw0 EXCEPT !.title = Str("Reentrancy"),
                   !.description = Str("state change after call"),
                   !.instances = List(<< At("A.sol", Num(42)) >>)],
      [Raw0 EXCEPT !.title = Str("REENTRANCY"), !.confidence = Str("High"),
                   !.instances = List(<< [At("a.sol", Num(42)) EXCEPT !.src = Str("10:4")],
                                         At("B.sol", Str("7")) >>)],
      \* a title that is no string
      [Raw0 EXCEPT !.title = Num(5), !.check = Str("reentrancy-eth"),
                   !.confidence = Str("High"),
                   !.instances = List(<< At("B.sol", Num(7)) >>)] }

\* records of a slither report's detectors list
SlitherDetectors ==
    { ScenarioSlither,
      \* a check name with blanks around it
      [Raw0 EXCEPT !.check = Str(" Reentrancy "), !.impact = Str("Medium"),
                   !.confidence = Str("Low"), !.details = Str("external call"),
                   !.instances = List(<< At("A.sol", Str("42")) >>)],
      \* scenario B: severity INFO, confidence 95
      [Raw0 EXCEPT !.check = Str("solc-version"), !.severity = Str("INFO"),
                   !.confidence = Num(95 * Scale),
                   !.source_mapping =
                       [Mapping0 EXCEPT !.filename = Str("A.sol"),
                                        !.lines = LinesList(<< Num(7), Str("7"), Num(8) >>)]],
      \* instances that are strings: evidence, but no location
      [Raw0 EXCEPT !.check = Str("reentrancy-eth"), !.impact = Str("High"),
                   !.confidence = Str("High"),
                   !.instances = List(<< [Inst0 EXCEPT !.k = "str"] >>)],
      [Raw0 EXCEPT !.name = Str("Tx Origin"), !.impact = Str("bogus"),
                   !.confidence = Str("0"),
                   !.elements = List(<< [Elem0 EXCEPT !.source_mapping =
                        [Mapping0 EXCEPT !.file = Str("B.sol"), !.lines = LinesInt(7)]] >>)] }

\* all sequences over S of length at most n
SeqsUpTo(S, n) == UNION { [1..m -> S] : m \in 0..n }

AderynReports(n) ==
    { [source |-> Str("aderyn"), data |-> [Report0 EXCEPT !.high_issues = Section(xs)]] :
        xs \in SeqsUpTo(AderynIssues, n) }

SlitherReports(n) ==
    { [source |-> Str("slither"), data |-> [Report0 EXCEPT !.detectors = List(xs)]] :
        xs \in SeqsUpTo(SlitherDetectors, n) }

\* _load_filters: the built-in defaults, or the file OPENAUDIT_FILTERS_PATH names
\* (here one that holds {})
EmptyFilters ==
    [min_severity |-> None, min_confidence |-> None, default |-> NoPatterns,
     tools |-> [t \in {} |-> NoPatterns]]
_load_filters == {DEFAULT_FILTERS, EmptyFilters}

\* the source files on disk: path -> number of lines
FileSystems == { [p \in {} |-> 0], ("A.sol" :> 50) @@ ("B.sol" :> 5) }

---------------------------------------------------------------------------
(* The pipeline: cli.py run_linear 325-381, graph.py node_extract / node_triage
   76-108, triage.py triage_findings 640-698 *)

VARIABLES
    pc,            \* the position of the run
    reports,       \* the tool reports, in the order of the tools
    next_report,   \* the report node_extract reads next
    findings,      \* the findings extracted so far
    config,        \* the filter configuration _load_filters returned
    detectors,     \* the argument of triage_findings, as it was handed over
    caller_filtered, \* the caller's list of those findings (run_linear's filtered,
                   \* node_extract's findings): the same dicts, as they are now
    max_issues,
    use_llm,
    normalized,
    deduped,
    filtered,
    api_key,       \* OPENAI_API_KEY is set
    ollama_model,  \* OLLAMA_MODEL is set
    outcome,       \* how the classifier call ended
    calls,         \* classifier calls made
    result,        \* the list triage_findings returned
    raised,        \* the exception that escaped, "none" if none
    record,        \* a raw record handed to the normalizer
    tag,           \* the source argument of _normalize_finding
    fallback,      \* the severity argument of _normalize_finding
    canon,         \* _normalize_confidence(record.confidence)
    once,          \* _normalize_finding(record, tag, fallback)
    again,         \* _normalize_finding(once, tag, fallback)
    existing       \* _normalize_existing_finding(once)

normVars == << record, tag, fallback, canon, once, again, existing >>

\* the dashboard server process: app.py, registry.py
VARIABLES
    cwd,           \* the working directory of the process
    locks,         \* _AGENT_LOCK and registry._lock: the holder, or "free"
    threads,       \* per thread: its position and its locals
    registry_file  \* the entries in ipfs_registry.json

serverVars == << cwd, locks, threads, registry_file >>

vars ==
    << pc, reports, next_report, findings, config, detectors, caller_filtered, max_issues, use_llm,
       normalized, deduped, filtered, api_key, ollama_model, outcome, calls,
       result, raised, normVars, serverVars >>

NoOutcome == [exc |-> "none", json |-> "none", findings |-> <<>>]

\* no record is being normalized on its own
NormIdle ==
    /\ record = NoRaw
    /\ tag = None
    /\ fallback = None
    /\ canon = None
    /\ once = Finding0
    /\ again = Finding0
    /\ existing = Finding0

\* the server as it starts: in its own directory, no thread, an empty registry
ServerIdle ==
    /\ cwd = "server"
    /\ locks = [agent |-> "free", registry |-> "free"]
    /\ threads = <<>>
    /\ registry_file = <<>>

Init ==
    /\ pc = "extract"
    /\ \E a \in AderynReports(MaxAderyn), s \in SlitherReports(MaxSlither) :
          reports = <<a, s>>
    /\ NormIdle
    /\ ServerIdle
    /\ next_report = 1
    /\ findings = <<>>
    /\ config = EmptyFilters
    /\ detectors = <<>>
    /\ caller_filtered = <<>>
    /\ max_issues \in (0 - 1)..MaxIssues   \* --max-issues is any int
    /\ use_llm \in BOOLEAN
    /\ normalized = <<>>
    /\ deduped = <<>>
    /\ filtered = <<>>
    /\ api_key = FALSE
    /\ ollama_model = FALSE
    /\ outcome = NoOutcome
    /\ calls = 0
    /\ result = <<>>
    /\ raised = "none"

\* an exception leaves the run
Escape(exc) == pc' = "raised" /\ raised' = exc

\* node_extract, one report: findings.extend(extract_findings(data, source))
ExtractFindings ==
    /\ pc = "extract"
    /\ next_report <= Len(reports)
    /\ LET report == reports[next_report]
       IN IF ExtractRaises(report.data) # "none"
          THEN /\ Escape(ExtractRaises(report.data))
               /\ UNCHANGED << findings, next_report >>
          ELSE /\ findings' = findings \o extract_findings(report.data, report.source)
               /\ next_report' = next_report + 1
               /\ UNCHANGED << pc, raised >>
    /\ UNCHANGED normVars
    /\ UNCHANGED serverVars
    /\ UNCHANGED << reports, config, detectors, caller_filtered, max_issues, use_llm, normalized,
                    deduped, filtered, api_key, ollama_model, outcome, calls, result >>

\* node_extract, after the loop: filtered = filter_findings(findings), handed
\* to triage_findings
PreFilter ==
    /\ pc = "extract"
    /\ next_report > Len(reports)
    /\ \E c \in _load_filters :
          /\ config' = c
          /\ IF FilterRaises(findings) # "none"
             THEN Escape(FilterRaises(findings))
                  /\ UNCHANGED << detectors, caller_filtered >>
             ELSE /\ detectors' = filter_findings(findings, c, NoOverrides)
                  /\ caller_filtered' = detectors'
                  /\ pc' = "triage"
                  /\ UNCHANGED raised
    /\ UNCHANGED normVars
    /\ UNCHANGED serverVars
    /\ UNCHANGED << reports, next_report, findings, max_issues, use_llm, normalized,
                    deduped, filtered, api_key, ollama_model, outcome, calls, result >>

\* triage_findings 646-647
ReturnEmpty ==
    /\ pc = "triage"
    /\ detectors = <<>>
    /\ caller_filtered = <<>>
    /\ result' = <<>>
    /\ pc' = "done"
    /\ UNCHANGED normVars
    /\ UNCHANGED serverVars
    /\ UNCHANGED << reports, next_report, findings, config, detectors, caller_filtered, max_issues,
                    use_llm, normalized, deduped, filtered, api_key, ollama_model,
                    outcome, calls, raised >>

NormalizeRaises(xs) ==
    FirstRaise([i \in 1..Len(xs) |-> NormalizeExistingRaises(xs[i])])

\* triage_findings 649
Normalize ==
    /\ pc = "triage"
    /\ detectors # <<>>
    /\ IF NormalizeRaises(detectors) # "none"
       THEN Escape(NormalizeRaises(detectors)) /\ UNCHANGED normalized
       ELSE /\ normalized' = [i \in 1..Len(detectors) |->
                                 _normalize_existing_finding(detectors[i])]
            /\ pc' = "normalized"
            /\ UNCHANGED raised
    /\ UNCHANGED normVars
    /\ UNCHANGED serverVars
    /\ UNCHANGED << reports, next_report, findings, config, detectors, caller_filtered, max_issues,
                    use_llm, deduped, filtered, api_key, ollama_model, outcome,
                    calls, result >>

\* triage_findings 650
Dedupe ==
    /\ pc = "normalized"
    /\ IF DedupeRaises(normalized) # "none"
       THEN Escape(DedupeRaises(normalized)) /\ UNCHANGED deduped
       ELSE /\ deduped' = _dedupe_findings(normalized)
            /\ pc' = "deduped"
            /\ UNCHANGED raised
    /\ UNCHANGED normVars
    /\ UNCHANGED serverVars
    /\ UNCHANGED << reports, next_report, findings, config, detectors, caller_filtered, max_issues,
                    use_llm, normalized, filtered, api_key, ollama_model, outcome,
                    calls, result >>

\* lines 651-653 as a function of the deduplicated list
EvidenceAndRules(xs, c) == filter_findings(EvidenceFilter(xs), c, NoOverrides)

EvidenceAndRulesRaises(xs) ==
    IF EvidenceRaises(xs) # "none" THEN EvidenceRaises(xs)
    ELSE FilterRaises(EvidenceFilter(xs))

\* triage_findings 651-656
Filter ==
    /\ pc = "deduped"
    /\ IF EvidenceAndRulesRaises(deduped) # "none"
       THEN Escape(EvidenceAndRulesRaises(deduped)) /\ UNCHANGED << filtered, result >>
       ELSE /\ filtered' = EvidenceAndRules(deduped, config)
            /\ pc' = IF filtered' = <<>> THEN "done" ELSE "filtered"
            /\ result' = <<>>
            /\ UNCHANGED raised
    /\ UNCHANGED normVars
    /\ UNCHANGED serverVars
    /\ UNCHANGED << reports, next_report, findings, config, detectors, caller_filtered, max_issues,
                    use_llm, normalized, deduped, api_key, ollama_model, outcome,
                    calls >>

\* triage_findings 658-659
RankWithoutLlm ==
    /\ pc = "filtered"
    /\ ~use_llm
    /\ result' = heuristic_rank(filtered, max_issues)
    /\ pc' = "done"
    /\ UNCHANGED normVars
    /\ UNCHANGED serverVars
    /\ UNCHANGED << reports, next_report, findings, config, detectors, caller_filtered, max_issues,
                    use_llm, normalized, deduped, filtered, api_key, ollama_model,
                    outcome, calls, raised >>

\* ReadCredentials without the return when nothing is configured
ReadCredentialsUnchecked ==
    /\ pc = "filtered"
    /\ use_llm
    /\ \E key \in BOOLEAN, model \in BOOLEAN :
          /\ api_key' = key
          /\ ollama_model' = model
          /\ pc' = "attach"
          /\ UNCHANGED result
    /\ UNCHANGED normVars
    /\ UNCHANGED serverVars
    /\ UNCHANGED << reports, next_report, findings, config, detectors, caller_filtered, max_issues,
                    use_llm, normalized, deduped, filtered, outcome, calls, raised >>

\* triage_findings 661-664: the two os.getenv reads
ReadCredentials ==
    /\ pc = "filtered"
    /\ use_llm
    /\ \E key \in BOOLEAN, model \in BOOLEAN :
          /\ api_key' = key
          /\ ollama_model' = model
          /\ IF ~key /\ ~model
             THEN result' = heuristic_rank(filtered, max_issues) /\ pc' = "done"
             ELSE pc' = "attach" /\ UNCHANGED result
    /\ UNCHANGED normVars
    /\ UNCHANGED serverVars
    /\ UNCHANGED << reports, next_report, findings, config, detectors, caller_filtered, max_issues,
                    use_llm, normalized, deduped, filtered, outcome, calls, raised >>

\* the caller's findings after _attach_snippets(kept): dict(finding) at 442
\* and list(...) at 512-513 copy a finding and its locations list but not the
\* location dicts, so a finding handed over with locations shares them with
\* the finding of its key, and location.update at 303 shows in both
SharedAfterAttach(ds, kept, files) ==
    [i \in 1..Len(ds) |->
        IF /\ IsList(ds[i].locations)
           /\ ds[i].locations.items # <<>>
           /\ \E k \in 1..Len(kept) :
                 key_for(kept[k]) = key_for(_normalize_existing_finding(ds[i]))
        THEN AttachToFinding(ds[i], files)
        ELSE ds[i]]

\* triage_findings 670: the location dicts of filtered are updated in place
AttachSnippets ==
    /\ pc = "attach"
    /\ IF AttachRaises(filtered) # "none"
       THEN Escape(AttachRaises(filtered)) /\ UNCHANGED << filtered, caller_filtered >>
       ELSE /\ \E files \in FileSystems :
                  /\ filtered' = _attach_snippets(filtered, files)
                  /\ caller_filtered' = SharedAfterAttach(caller_filtered, filtered, files)
            /\ pc' = "call"
            /\ UNCHANGED raised
    /\ UNCHANGED normVars
    /\ UNCHANGED serverVars
    /\ UNCHANGED << reports, next_report, findings, config, detectors, max_issues,
                    use_llm, normalized, deduped, api_key, ollama_model, outcome,
                    calls, result >>

\* triage_findings 671-681
CallLlm ==
    /\ pc = "call"
    /\ api_key
    /\ outcome' \in CallLlmOutcomes
    /\ calls' = calls + 1
    /\ pc' = "try"
    /\ UNCHANGED normVars
    /\ UNCHANGED serverVars
    /\ UNCHANGED << reports, next_report, findings, config, detectors, caller_filtered, max_issues,
                    use_llm, normalized, deduped, filtered, api_key, ollama_model,
                    result, raised >>

\* triage_findings 682-696
CallOllama ==
    /\ pc = "call"
    /\ ~api_key
    /\ outcome' \in CallOllamaOutcomes \cup {NoAnswer}
    /\ calls' = calls + 1
    /\ pc' = IF outcome' = NoAnswer THEN "waiting" ELSE "try"
    /\ UNCHANGED normVars
    /\ UNCHANGED serverVars
    /\ UNCHANGED << reports, next_report, findings, config, detectors, caller_filtered, max_issues,
                    use_llm, normalized, deduped, filtered, api_key, ollama_model,
                    result, raised >>

\* the list comprehension over the reply, 672-681 and 693-696
ReturnReply ==
    /\ pc = "try"
    /\ TryRaises(outcome) = "none"
    /\ result' = [i \in 1..Len(outcome.findings) |->
                     _normalize_existing_finding(outcome.findings[i])]
    /\ pc' = "done"
    /\ UNCHANGED normVars
    /\ UNCHANGED serverVars
    /\ UNCHANGED << reports, next_report, findings, config, detectors, caller_filtered, max_issues,
                    use_llm, normalized, deduped, filtered, api_key, ollama_model,
                    outcome, calls, raised >>

\* triage_findings 697-698
ExceptFallback ==
    /\ pc = "try"
    /\ TryRaises(outcome) \in CaughtClasses
    /\ result' = heuristic_rank(filtered, max_issues)
    /\ pc' = "done"
    /\ UNCHANGED normVars
    /\ UNCHANGED serverVars
    /\ UNCHANGED << reports, next_report, findings, config, detectors, caller_filtered, max_issues,
                    use_llm, normalized, deduped, filtered, api_key, ollama_model,
                    outcome, calls, raised >>

\* an exception the except clause does not name
Propagate ==
    /\ pc = "try"
    /\ TryRaises(outcome) \notin CaughtClasses \cup {"none"}
    /\ Escape(TryRaises(outcome))
    /\ UNCHANGED normVars
    /\ UNCHANGED serverVars
    /\ UNCHANGED << reports, next_report, findings, config, detectors, caller_filtered, max_issues,
                    use_llm, normalized, deduped, filtered, api_key, ollama_model,
                    outcome, calls, result >>

Next ==
    \/ ExtractFindings
    \/ PreFilter
    \/ ReturnEmpty
    \/ Normalize
    \/ Dedupe
    \/ Filter
    \/ RankWithoutLlm
    \/ ReadCredentials
    \/ AttachSnippets
    \/ CallLlm
    \/ CallOllama
    \/ ReturnReply
    \/ ExceptFallback
    \/ Propagate

Spec == Init /\ [][Next]_vars

\* the run has a next step: it has neither returned nor raised, and it is not
\* inside client.chat waiting for an answer that does not come
Running == pc \notin {"done", "raised", "waiting"}

\* the positions of a run of triage_findings
Positions ==
    { "extract", "triage", "normalized", "deduped", "filtered", "attach", "call",
      "try", "waiting", "done", "raised" }

\* the run moving on, seen by its position alone: a run that is Running has a
\* step, and every step but the reading of one more report moves the position
Advance == Running /\ pc' \in Positions

\* the run is one thread that takes its next step whenever it has one: weak
\* fairness of its steps. A call that is waiting for its answer has no step.
SpecLive == Init /\ [][Next]_vars /\ WF_pc(Advance)

---------------------------------------------------------------------------
(* The extractor and the deduplicator called alone on two reports:
   extract_findings on each, the results concatenated, then _dedupe_findings *)

InitDedupe ==
    /\ pc = "extract"
    /\ \E a \in AderynReports(MaxPerTool), s \in SlitherReports(MaxPerTool) :
          reports \in { <<a, s>>, <<s, a>> }
    /\ NormIdle
    /\ ServerIdle
    /\ next_report = 1
    /\ findings = <<>>
    /\ config = EmptyFilters
    /\ detectors = <<>>
    /\ caller_filtered = <<>>
    /\ max_issues = 1
    /\ use_llm = FALSE
    /\ normalized = <<>>
    /\ deduped = <<>>
    /\ filtered = <<>>
    /\ api_key = FALSE
    /\ ollama_model = FALSE
    /\ outcome = NoOutcome
    /\ calls = 0
    /\ result = <<>>
    /\ raised = "none"

\* _dedupe_findings on the concatenation
DedupeExtracted ==
    /\ pc = "extract"
    /\ next_report > Len(reports)
    /\ IF DedupeRaises(findings) # "none"
       THEN Escape(DedupeRaises(findings)) /\ UNCHANGED deduped
       ELSE /\ deduped' = _dedupe_findings(findings)
            /\ pc' = "merged"
            /\ UNCHANGED raised
    /\ UNCHANGED normVars
    /\ UNCHANGED serverVars
    /\ UNCHANGED << reports, next_report, findings, config, detectors, caller_filtered, max_issues,
                    use_llm, normalized, filtered, api_key, ollama_model, outcome,
                    calls, result >>

NextDedupe ==
    \/ ExtractFindings
    \/ DedupeExtracted

SpecDedupe == InitDedupe /\ [][NextDedupe]_vars

---------------------------------------------------------------------------
(* The normalizer called alone on one raw record, then on its own output *)

\* numeric confidences, in fixed point: -0.5, 0, 0.25, 0.5, 1, 1.01, 50, 95,
\* 100, 100.5, 250 (multiples of 0.01, so that / 100 is exact)
ConfidenceNumbers ==
    { 0 - 5000, 0, 2500, 5000, Scale, 10100, 50 * Scale, 95 * Scale, 100 * Scale,
      1005000, 250 * Scale }

RawRecords ==
    { [Raw0 EXCEPT !.check = Str("reentrancy-eth"), !.severity = sev, !.impact = imp,
                   !.confidence = conf, !.certainty = cert, !.instances = inst,
                   !.elements = elems] :
        sev \in {None, Str("INFO"), Str(" high "), Str("bogus"), Num(3)},
        imp \in {None, Str("Medium")},
        conf \in {None, Str("Medium"), Str("0"), Str("abc"), Str("95"), Str(" 0.5 ")}
                 \cup { Num(v) : v \in ConfidenceNumbers },
        cert \in {None, Str("certain")},
        inst \in { NoList,
                   List(<< At("A.sol", Num(42)) >>),
                   List(<< At("A.sol", Str("42")), At("A.sol", Num(42)),
                           [Inst0 EXCEPT !.k = "str"] >>),
                   \* a line number that is no number
                   List(<< At("A.sol", Str("4a")) >>) },
        elems \in { NoList,
                    List(<< [Elem0 EXCEPT !.sourceMapping =
                        [Mapping0 EXCEPT !.file = Str("B.sol"),
                                         !.lines = LinesStr("7")]] >>) } }

InitNormalize ==
    /\ pc = "raw"
    /\ record \in RawRecords
    /\ tag = Str("slither")
    /\ fallback \in {None, Str("HIGH")}
    /\ canon = None
    /\ once = Finding0
    /\ again = Finding0
    /\ existing = Finding0
    /\ ServerIdle
    /\ reports = <<>>
    /\ next_report = 1
    /\ findings = <<>>
    /\ config = EmptyFilters
    /\ detectors = <<>>
    /\ caller_filtered = <<>>
    /\ max_issues = 1
    /\ use_llm = FALSE
    /\ normalized = <<>>
    /\ deduped = <<>>
    /\ filtered = <<>>
    /\ api_key = FALSE
    /\ ollama_model = FALSE
    /\ outcome = NoOutcome
    /\ calls = 0
    /\ result = <<>>
    /\ raised = "none"

pipelineVars ==
    << reports, next_report, findings, config, detectors, caller_filtered, max_issues, use_llm,
       normalized, deduped, filtered, api_key, ollama_model, outcome, calls,
       result, raised >>

\* _normalize_confidence on the record's confidence
CanonConfidence ==
    /\ pc = "raw"
    /\ canon' = _normalize_confidence(record.confidence)
    /\ pc' = "canon"
    /\ UNCHANGED << record, tag, fallback, once, again, existing, pipelineVars >>
    /\ UNCHANGED serverVars

\* _normalize_finding on the record
NormalizeRecord ==
    /\ pc = "canon"
    /\ once' = _normalize_finding(record, tag, fallback)
    /\ pc' = "once"
    /\ UNCHANGED << record, tag, fallback, canon, again, existing, pipelineVars >>
    /\ UNCHANGED serverVars

\* _normalize_finding on its own output
NormalizeAgain ==
    /\ pc = "once"
    /\ again' = _normalize_finding(FindingAsRaw(once), tag, fallback)
    /\ pc' = "again"
    /\ UNCHANGED << record, tag, fallback, canon, once, existing, pipelineVars >>
    /\ UNCHANGED serverVars

\* _normalize_existing_finding on the output of _normalize_finding
NormalizeExisting ==
    /\ pc = "again"
    /\ existing' = _normalize_existing_finding(once)
    /\ pc' = "twice"
    /\ UNCHANGED << record, tag, fallback, canon, once, again, pipelineVars >>
    /\ UNCHANGED serverVars

NextNormalize ==
    \/ CanonConfidence
    \/ NormalizeRecord
    \/ NormalizeAgain
    \/ NormalizeExisting

SpecNormalize == InitNormalize /\ [][NextNormalize]_vars

---------------------------------------------------------------------------
(* The rule filter and the ranker called alone on a list of findings *)

\* findings in the list handed to filter_findings or heuristic_rank
MaxListed == 2

\* a normalized finding
Found(title, severity, confidence, source) ==
    [Finding0 EXCEPT !.title = Str(title), !.severity = Str(severity),
                     !.confidence = confidence, !.source = Str(source),
                     !.locations = List(<<>>)]

\* scenario E: five findings of scores 9, 9, 6, 3, 0
ScenarioE ==
    << Found("Reentrancy", "HIGH", Num(0), "slither"),
       Found("Tx Origin", "MEDIUM", Num(9500), "aderyn"),
       Found("Reentrancy", "MEDIUM", Num(0), "aderyn"),
       Found("Tx Origin", "LOW", Num(0), "slither"),
       Found("solc-version", "INFORMATIONAL", Num(0), "slither") >>

RuleFindings ==
    { ScenarioE[i] : i \in 1..Len(ScenarioE) }
    \cup { Found("Untitled finding", "CRITICAL", None, "aderyn"),
           Found("Reentrancy", "LOW", Num(9500), "slither"),
           Found("reentrancy-eth", "HIGH", Num(9000), "slither") }

\* a file that sets min_severity to HIGH and nothing else
HighOnly == [EmptyFilters EXCEPT !.min_severity = Str("HIGH")]

\* a file with default patterns and a confidence minimum
PatternFilters ==
    [EmptyFilters EXCEPT !.min_confidence = Num(6000),
                         !.default = [allow |-> << "reentrancy", " Tx Origin " >>,
                                      deny |-> << "", "--" >>],
                         !.tools = ("slither" :> [allow |-> <<>>,
                                                  deny |-> << "tx-origin" >>])]

RuleConfigs == {DEFAULT_FILTERS, EmptyFilters, HighOnly, PatternFilters}

InitRules ==
    /\ pc = "input"
    /\ findings \in SeqsUpTo(RuleFindings, MaxListed) \cup {ScenarioE}
    /\ config \in RuleConfigs
    /\ max_issues \in 0..MaxIssues
    /\ NormIdle
    /\ ServerIdle
    /\ reports = <<>>
    /\ next_report = 1
    /\ detectors = <<>>
    /\ caller_filtered = <<>>
    /\ use_llm = FALSE
    /\ normalized = <<>>
    /\ deduped = <<>>
    /\ filtered = <<>>
    /\ api_key = FALSE
    /\ ollama_model = FALSE
    /\ outcome = NoOutcome
    /\ calls = 0
    /\ result = <<>>
    /\ raised = "none"

\* filter_findings(findings) under the loaded configuration
FilterFindings ==
    /\ pc = "input"
    /\ filtered' = filter_findings(findings, config, NoOverrides)
    /\ pc' = "kept"
    /\ UNCHANGED normVars
    /\ UNCHANGED serverVars
    /\ UNCHANGED << reports, next_report, findings, config, detectors, caller_filtered, max_issues,
                    use_llm, normalized, deduped, api_key, ollama_model, outcome,
                    calls, result, raised >>

\* heuristic_rank(findings, max_issues)
HeuristicRank ==
    /\ pc = "input"
    /\ result' = heuristic_rank(findings, max_issues)
    /\ pc' = "ranked"
    /\ UNCHANGED normVars
    /\ UNCHANGED serverVars
    /\ UNCHANGED << reports, next_report, findings, config, detectors, caller_filtered, max_issues,
                    use_llm, normalized, deduped, filtered, api_key, ollama_model,
                    outcome, calls, raised >>

NextRules ==
    \/ FilterFindings
    \/ HeuristicRank

SpecRules == InitRules /\ [][NextRules]_vars

---------------------------------------------------------------------------
(* The extractor called alone on a report of no known shape *)

\* the values a report may hold under a probed key without holding records:
\* nothing, a value that is no list, an empty list
NoRecords == {NoList, NotAList, List(<<>>)}

\* "results" that is missing, null, a list, a string, or an object without records
ResultsWithout ==
    { [NoResults EXCEPT !.k = k] : k \in {"absent", "null", "list", "str"} }
    \cup { [NoResults EXCEPT !.k = "dict", !.findings = f, !.detectors = d] :
              f \in NoRecords, d \in NoRecords }

\* a severity bucket that is missing, null, a list, or an object without issues
SectionsWithout ==
    { [NoSection EXCEPT !.k = k] : k \in {"none", "null", "list"} }
    \cup { [NoSection EXCEPT !.k = "dict", !.issues = xs] : xs \in NoRecords }

UnknownReports ==
    { [Report0 EXCEPT !.findings = f, !.detectors = d, !.results = r,
                      !.high_issues = h, !.informational_issues = i] :
        f \in NoRecords, d \in NoRecords, r \in ResultsWithout,
        h \in SectionsWithout, i \in SectionsWithout }

InitExtract ==
    /\ pc = "extract"
    /\ \E data \in UnknownReports, source \in {Str("slither"), None} :
          reports = << [source |-> source, data |-> data] >>
    /\ NormIdle
    /\ ServerIdle
    /\ next_report = 1
    /\ findings = <<>>
    /\ config = EmptyFilters
    /\ detectors = <<>>
    /\ caller_filtered = <<>>
    /\ max_issues = 1
    /\ use_llm = FALSE
    /\ normalized = <<>>
    /\ deduped = <<>>
    /\ filtered = <<>>
    /\ api_key = FALSE
    /\ ollama_model = FALSE
    /\ outcome = NoOutcome
    /\ calls = 0
    /\ result = <<>>
    /\ raised = "none"

NextExtract == ExtractFindings

SpecExtract == InitExtract /\ [][NextExtract]_vars

---------------------------------------------------------------------------
(* The dashboard server: app.py create_job / _run_job 315-403,
   _run_agent_in_session 170-177; registry.py add_entry 36-61 *)

\* job threads started by create_job, chat threads started by agent_chat
MaxJobs == 2
MaxSessions == 1

Jobs == { "job" \o ToString(i) : i \in 1..MaxJobs }
Sessions == { "chat" \o ToString(i) : i \in 1..MaxSessions }

\* the CIDs pin_json may return
Cids == {"cid1", "cid2"}

\* the source files under a directory: path -> number of lines; the reports'
\* relative paths resolve in the server's directory, a session directory has none
DirFiles(dir) ==
    IF dir = "server" THEN ("A.sol" :> 50) @@ ("B.sol" :> 5) ELSE [p \in {} |-> 0]

\* triage_findings up to its filters: the findings normalized, deduplicated
\* and filtered; nothing here reads the working directory
TriageFiltered(ds, c) ==
    LET canonical == [i \in 1..Len(ds) |-> _normalize_existing_finding(ds[i])]
    IN IF ds = <<>> THEN <<>> ELSE EvidenceAndRules(_dedupe_findings(canonical), c)

\* the rest of triage_findings with use_llm and a classifier configured whose
\* call ends in an exception the except clause names: the ranking of the
\* filtered findings with the snippets _attach_snippets found from the
\* working directory
TriageRanked(kept, n, files) ==
    IF kept = <<>> THEN <<>> ELSE heuristic_rank(_attach_snippets(kept, files), n)

\* the whole of that call of triage_findings
TriageOnFallback(ds, n, c, files) ==
    TriageRanked(TriageFiltered(ds, c), n, files)

\* the findings a thread's run hands to triage_findings: a job's, a chat's
ThreadInput(t) ==
    IF t \in Jobs
    THEN << [Found("Reentrancy", "HIGH", Num(9000), "slither") EXCEPT
               !.locations = List(<< [Loc0 EXCEPT !.file = Str("A.sol"),
                                                  !.line = Num(42)] >>)] >>
    ELSE << [Found("Tx Origin", "MEDIUM", Num(9500), "aderyn") EXCEPT
               !.locations = List(<< [Loc0 EXCEPT !.file = Str("B.sol"),
                                                  !.line = Num(3)] >>)],
            Found("Reentrancy", "HIGH", None, "aderyn") >>

Thread0 ==
    [pc |-> "start", input |-> <<>>, kept |-> <<>>, out |-> <<>>, prev_cwd |-> "server",
     cid |-> "none", entries |-> <<>>]

\* a lock that is never held
UnlockedAlways(holder) == TRUE

\* a lock can be taken
Unlocked(holder) == holder = "free"

InitServer ==
    /\ pc = "serving"
    /\ cwd = "server"
    /\ locks = [agent |-> "free", registry |-> "free"]
    /\ threads = [t \in Jobs \cup Sessions |-> [Thread0 EXCEPT !.input = ThreadInput(t)]]
    /\ registry_file = <<>>
    /\ NormIdle
    /\ reports = <<>>
    /\ next_report = 1
    /\ findings = <<>>
    /\ config = EmptyFilters
    /\ detectors = <<>>
    /\ caller_filtered = <<>>
    /\ max_issues = MaxIssues
    /\ use_llm = TRUE
    /\ normalized = <<>>
    /\ deduped = <<>>
    /\ filtered = <<>>
    /\ api_key = TRUE
    /\ ollama_model = FALSE
    /\ outcome = NoOutcome
    /\ calls = 0
    /\ result = <<>>
    /\ raised = "none"

\* _run_job 329-348: the pipeline, up to the filters of its triage
RunJob(t) ==
    /\ t \in Jobs
    /\ threads[t].pc = "start"
    /\ threads' = [threads EXCEPT
          ![t].kept = TriageFiltered(threads[t].input, config),
          ![t].pc = "triage"]
    /\ UNCHANGED << cwd, locks, registry_file >>
    /\ UNCHANGED << pc, pipelineVars, normVars >>

\* _run_job 351-354, 363-365: pin_json returns a CID or raises
PinJson(t) ==
    /\ t \in Jobs
    /\ threads[t].pc = "pin"
    /\ \/ \E c \in Cids : threads' = [threads EXCEPT ![t].cid = c, ![t].pc = "add"]
       \/ threads' = [threads EXCEPT ![t].pc = "done"]
    /\ UNCHANGED << cwd, locks, registry_file >>
    /\ UNCHANGED << pc, pipelineVars, normVars >>

\* add_entry 54: with _lock
AddEntryLock(t) ==
    /\ threads[t].pc = "add"
    /\ Unlocked(locks.registry)
    /\ locks' = [locks EXCEPT !.registry = t]
    /\ threads' = [threads EXCEPT ![t].pc = "locked"]
    /\ UNCHANGED << cwd, registry_file >>
    /\ UNCHANGED << pc, pipelineVars, normVars >>

\* add_entry 55: entries = _read(registry_path)
AddEntryRead(t) ==
    /\ threads[t].pc = "locked"
    /\ threads' = [threads EXCEPT ![t].entries = registry_file, ![t].pc = "read"]
    /\ UNCHANGED << cwd, locks, registry_file >>
    /\ UNCHANGED << pc, pipelineVars, normVars >>

\* add_entry 57-61: return on a known CID, else append and _write; the lock
\* is released on the way out
AddEntryWrite(t) ==
    /\ threads[t].pc = "read"
    /\ LET entries == threads[t].entries
       IN IF \E i \in 1..Len(entries) : entries[i].cid = threads[t].cid
          THEN UNCHANGED registry_file
          ELSE registry_file' =
                  Append(entries, [cid |-> threads[t].cid, job_id |-> t])
    /\ locks' = [locks EXCEPT !.registry = "free"]
    /\ threads' = [threads EXCEPT ![t].pc = "done"]
    /\ UNCHANGED cwd
    /\ UNCHANGED << pc, pipelineVars, normVars >>

\* _run_agent_in_session 171-174: with _AGENT_LOCK, prev_cwd, os.chdir(session_dir)
SessionEnter(t) ==
    /\ t \in Sessions
    /\ threads[t].pc = "start"
    /\ Unlocked(locks.agent)
    /\ locks' = [locks EXCEPT !.agent = t]
    /\ threads' = [threads EXCEPT ![t].prev_cwd = cwd, ![t].pc = "routed"]
    /\ cwd' = "session"
    /\ UNCHANGED registry_file
    /\ UNCHANGED << pc, pipelineVars, normVars >>

\* _run_agent_in_session 175: the routed message runs an audit, up to the
\* filters of its triage
SessionRoute(t) ==
    /\ t \in Sessions
    /\ threads[t].pc = "routed"
    /\ threads' = [threads EXCEPT
          ![t].kept = TriageFiltered(threads[t].input, config),
          ![t].pc = "triage"]
    /\ UNCHANGED << cwd, locks, registry_file >>
    /\ UNCHANGED << pc, pipelineVars, normVars >>

\* triage_findings 688-698 in either kind of thread: _attach_snippets reads
\* the files from the working directory of the process as it is now, the
\* classifier call fails and the heuristic ranking is returned
AttachAndRank(t) ==
    /\ threads[t].pc = "triage"
    /\ threads' = [threads EXCEPT
          ![t].out = TriageRanked(threads[t].kept, max_issues, DirFiles(cwd)),
          ![t].pc = IF t \in Jobs THEN "pin" ELSE "leave"]
    /\ UNCHANGED << cwd, locks, registry_file >>
    /\ UNCHANGED << pc, pipelineVars, normVars >>

\* _run_agent_in_session 176-177: os.chdir(prev_cwd), the lock released
SessionLeave(t) ==
    /\ t \in Sessions
    /\ threads[t].pc = "leave"
    /\ cwd' = threads[t].prev_cwd
    /\ locks' = [locks EXCEPT !.agent = "free"]
    /\ threads' = [threads EXCEPT ![t].pc = "done"]
    /\ UNCHANGED registry_file
    /\ UNCHANGED << pc, pipelineVars, normVars >>

NextServer ==
    \E t \in Jobs \cup Sessions :
        \/ RunJob(t)
        \/ PinJson(t)
        \/ AddEntryLock(t)
        \/ AddEntryRead(t)
        \/ AddEntryWrite(t)
        \/ SessionEnter(t)
        \/ SessionRoute(t)
        \/ AttachAndRank(t)
        \/ SessionLeave(t)

SpecServer == InitServer /\ [][NextServer]_vars

---------------------------------------------------------------------------
(* Claims *)

\* the classifier was called and did not answer with a list of objects
ClassifierFailed == calls > 0 /\ (outcome.exc # "none" \/ outcome.json # "objects")

\* C1: with use_llm, a classifier configured and a non-empty filtered set,
\* whenever the classifier call fails in any way (timeout, network error, HTTP
\* error status, a body or content that is not JSON, a reply that is not a
\* list of objects or lacks the expected fields, the Ollama library missing),
\* no exception escapes triage_findings and it returns
\* heuristic_rank(filtered, max_issues).
C1_ClassifierFailureFallsBack ==
    (pc \in {"done", "raised"} /\ ClassifierFailed)
        => raised = "none" /\ result = heuristic_rank(filtered, max_issues)

\* C2: triage_findings with use_llm = false raises no exception, whatever the
\* types of the fields of the findings it is given.
C2_HeuristicTriageNeverRaises ==
    (~use_llm /\ detectors # <<>>) => raised = "none"

\* the pure heuristic path of triage_findings: lines 649-659
HeuristicPath(ds, n, c) ==
    heuristic_rank(
        EvidenceAndRules(
            _dedupe_findings([i \in 1..Len(ds) |-> _normalize_existing_finding(ds[i])]),
            c),
        n)

\* C3: when the classifier call raises a timeout, the list triage_findings
\* returns equals the list the pure heuristic path returns for the same input
\* and max_issues, location records included.
C3_TimeoutEqualsHeuristicPath ==
    (pc = "done" /\ outcome.exc = "requests.Timeout")
        => result = HeuristicPath(detectors, max_issues, config)

\* the reports of scenario A, in either order
ScenarioA ==
    LET a == [source |-> Str("aderyn"),
              data |-> [Report0 EXCEPT !.high_issues = Section(<< ScenarioAderyn >>)]]
        s == [source |-> Str("slither"),
              data |-> [Report0 EXCEPT !.detectors = List(<< ScenarioSlither >>)]]
    IN reports \in { <<a, s>>, <<s, a>> }

\* the items of a sequence, as a set
Range(xs) == { xs[i] : i \in 1..Len(xs) }

\* C4 as claimed: on scenario A, extract + concatenate + dedupe yields exactly
\* one finding, titled "Reentrancy", with sources {aderyn, slither} and two
\* locations.
C4_ScenarioAMerges ==
    (pc = "merged" /\ ScenarioA)
        => /\ Len(deduped) = 1
           /\ deduped[1].title = Str("Reentrancy")
           /\ Range(deduped[1].sources.items) = {Str("aderyn"), Str("slither")}
           /\ Len(LocationsOrEmpty(deduped[1])) = 2

\* C4 as amended: on scenario A, extract + concatenate + dedupe yields two
\* findings that are not merged: "Reentrancy" from aderyn, HIGH, with no
\* location, and "reentrancy-eth" from slither, HIGH, confidence 0.6, with the
\* one location A.sol:42.
C4_ScenarioAStaysApart ==
    (pc = "merged" /\ ScenarioA)
        => /\ Len(deduped) = 2
           /\ \E i, j \in 1..2 :
                 /\ deduped[i].title = Str("Reentrancy")
                 /\ deduped[i].source = Str("aderyn")
                 /\ deduped[i].severity = Str("HIGH")
                 /\ deduped[i].locations = List(<<>>)
                 /\ deduped[i].sources = NoList
                 /\ deduped[j].title = Str("reentrancy-eth")
                 /\ deduped[j].source = Str("slither")
                 /\ deduped[j].severity = Str("HIGH")
                 /\ deduped[j].confidence = Num(6000)
                 /\ deduped[j].locations =
                       List(<< [Loc0 EXCEPT !.file = Str("A.sol"), !.line = Num(42)] >>)
                 /\ deduped[j].sources = NoList

C4_Witness == pc = "merged" /\ ScenarioA /\ Len(deduped) = 2

\* the number of location entries over a list of findings
RECURSIVE TotalLocations(_)
TotalLocations(xs) ==
    IF xs = <<>> THEN 0
    ELSE Len(LocationsOrEmpty(Head(xs))) + TotalLocations(Tail(xs))

\* C5: _dedupe_findings never drops a location: the location entries of the
\* output add up to those of the input, whatever the number of findings per
\* key, and two findings that share a key merge into one whose locations are
\* the primary's followed by the secondary's.
C5_DedupeKeepsLocations ==
    pc = "merged"
        => /\ TotalLocations(deduped) = TotalLocations(findings)
           /\ (Len(findings) = 2 /\ key_for(findings[1]) = key_for(findings[2]))
                 => LET second_wins == _rank_score(findings[2]) > _rank_score(findings[1])
                        primary == IF second_wins THEN findings[2] ELSE findings[1]
                        secondary == IF second_wins THEN findings[1] ELSE findings[2]
                    IN /\ Len(deduped) = 1
                       /\ deduped[1].locations.items =
                             primary.locations.items \o secondary.locations.items

\* three findings under one key, each with locations, merged into one
C5_Witness ==
    /\ pc = "merged"
    /\ Len(findings) = 3
    /\ Len(deduped) = 1
    /\ \A i \in 1..3 : findings[i].locations.items # <<>>
    /\ TotalLocations(deduped) = 4

\* C6: every output finding of _dedupe_findings merged from k >= 2 input
\* findings lists in sources the source tag of each of the k, each once.
C6_SourcesHoldEveryTool ==
    pc = "merged"
        => \A i \in 1..Len(deduped) :
              LET merged_from == { j \in 1..Len(findings) :
                                      key_for(findings[j]) = key_for(deduped[i]) }
                  tags == deduped[i].sources.items
              IN Cardinality(merged_from) >= 2
                    => /\ \A j \in merged_from : findings[j].source \in Range(tags)
                       /\ \A m, n \in 1..Len(tags) : tags[m] = tags[n] => m = n

\* no two entries of the list have the same (file, line, span)
UniqueTriples(locations) ==
    \A m, n \in 1..Len(locations) :
        ( /\ locations[m].file = locations[n].file
          /\ locations[m].line = locations[n].line
          /\ locations[m].span = locations[n].span ) => m = n

\* C7 as claimed: no finding returned by extract_findings, by
\* _dedupe_findings or by triage_findings has two locations with the same
\* (file, line, span).
C7_NoRepeatedLocation ==
    /\ \A i \in 1..Len(findings) : UniqueTriples(LocationsOrEmpty(findings[i]))
    /\ \A i \in 1..Len(deduped) : UniqueTriples(LocationsOrEmpty(deduped[i]))
    /\ \A i \in 1..Len(result) : UniqueTriples(LocationsOrEmpty(result[i]))

\* C7 as amended: no finding returned by extract_findings has two locations
\* with the same (file, line, span); a finding merged by _dedupe_findings
\* holds its primary's locations followed by its secondary's and may repeat one.
C7_ExtractedLocationsUnique ==
    \A i \in 1..Len(findings) : UniqueTriples(LocationsOrEmpty(findings[i]))

\* a record whose source mapping lists line 7 twice was extracted
C7_Witness ==
    \E i \in 1..Len(findings) :
        /\ findings[i].raw.source_mapping.lines = LinesList(<< Num(7), Str("7"), Num(8) >>)
        /\ Len(findings[i].locations.items) = 2

\* a non-empty title and a severity of the fixed enumeration
WellFormed(finding) ==
    /\ Truthy(finding.title)
    /\ IsStr(finding.severity)
    /\ finding.severity.s \in DOMAIN SEVERITY_SCORES

\* the record has no title, check or name
Untitled(rec) == ~Truthy(rec.title) /\ ~Truthy(rec.check) /\ ~Truthy(rec.name)

\* neither the record's severity nor its impact is a known severity
UnknownSeverity(rec) ==
    IsNone(_normalize_severity(rec.severity)) /\ IsNone(_normalize_severity(rec.impact))

\* C8: every finding returned by extract_findings and by triage_findings, on
\* the heuristic, the fallback and the classifier path, has a non-empty title
\* and a severity among CRITICAL, HIGH, MEDIUM, LOW, INFORMATIONAL; a classifier
\* reply without title, check and name is titled "Untitled finding", and one
\* whose severity and impact are unknown or missing gets LOW.
C8_TitleAndSeverityCanonical ==
    /\ \A i \in 1..Len(findings) : WellFormed(findings[i])
    /\ \A i \in 1..Len(result) : WellFormed(result[i])
    /\ (pc = "done" /\ outcome.json = "objects")
          => \A i \in 1..Len(result) :
                /\ Untitled(outcome.findings[i])
                      => result[i].title = Str("Untitled finding")
                /\ UnknownSeverity(outcome.findings[i])
                      => result[i].severity = Str("LOW")

\* the classifier answered with an untitled object of severity "bogus"
C8_Witness ==
    /\ pc = "done"
    /\ outcome.json = "objects"
    /\ Len(result) = 2
    /\ outcome.findings[1].severity = Str("bogus")
    /\ result[1].title = Str("Untitled finding")
    /\ result[1].severity = Str("LOW")
    /\ findings # <<>>

\* same severity, same confidence, same set of locations
SameCanon(f, g) ==
    /\ f.severity = g.severity
    /\ f.confidence = g.confidence
    /\ Range(LocationsOrEmpty(f)) = Range(LocationsOrEmpty(g))

\* C9: the normalizer is idempotent: _normalize_finding applied to its own
\* output, and _normalize_existing_finding applied to the output of
\* _normalize_finding, give the same severity, confidence and set of
\* locations as the first application.
C9_NormalizerIdempotent ==
    pc = "twice" => SameCanon(again, once) /\ SameCanon(existing, once)

\* the value the claim gives for a numeric confidence v
ClaimedConfidence(v) ==
    IF v < 0 THEN 0
    ELSE IF v <= Scale THEN v
    ELSE IF v <= 100 * Scale THEN v \div 100
    ELSE Scale

\* C10: _normalize_confidence on a number v returns v/100 when 1 < v <= 100,
\* v when 0 <= v <= 1, 1.0 when v > 100 and 0.0 when v < 0; every result that
\* is not absent lies in [0, 1]; severity "INFO" with confidence 95 normalizes
\* to INFORMATIONAL with confidence 0.95.
C10_ConfidenceCanonical ==
    pc # "raw"
        => /\ IsNum(record.confidence)
                 => canon = Num(ClaimedConfidence(record.confidence.n))
           /\ ~IsNone(canon) => (IsNum(canon) /\ canon.n >= 0 /\ canon.n <= Scale)
           /\ ( /\ pc # "canon"
                /\ record.severity = Str("INFO")
                /\ record.confidence = Num(95 * Scale) )
                 => /\ once.severity = Str("INFORMATIONAL")
                    /\ once.confidence = Num(95 * 100)

\* scenario B was normalized
C10_Witness ==
    /\ pc = "once"
    /\ record.severity = Str("INFO")
    /\ record.confidence = Num(95 * Scale)
    /\ canon = Num(95 * 100)
    /\ once.confidence = Num(95 * 100)

\* xs is ys with some entries left out, the others in their order
RECURSIVE IsSubsequence(_, _)
IsSubsequence(xs, ys) ==
    IF xs = <<>> THEN TRUE
    ELSE IF ys = <<>> THEN FALSE
    ELSE IF Head(xs) = Head(ys) THEN IsSubsequence(Tail(xs), Tail(ys))
    ELSE IsSubsequence(xs, Tail(ys))

\* the entries of xs whose severity is HIGH or CRITICAL, in order
RECURSIVE HighOrCritical(_)
HighOrCritical(xs) ==
    IF xs = <<>> THEN <<>>
    ELSE (IF Head(xs).severity \in {Str("HIGH"), Str("CRITICAL")}
          THEN <<Head(xs)>> ELSE <<>>) \o HighOrCritical(Tail(xs))

\* C11: filter_findings returns an order-preserving subsequence of its input
\* under every configuration; when min_severity = HIGH is the only active rule
\* the subsequence is exactly the input findings of severity HIGH or CRITICAL.
C11_FilterKeepsOrderedSubset ==
    pc = "kept"
        => /\ IsSubsequence(filtered, findings)
           /\ config = HighOnly => filtered = HighOrCritical(findings)

\* scenario E under min_severity = HIGH: one of the five findings is kept
C11_Witness ==
    /\ pc = "kept"
    /\ config = HighOnly
    /\ findings = ScenarioE
    /\ filtered = << ScenarioE[1] >>

\* position i of xs comes before position j in a stable descending sort by score
RanksBefore(xs, i, j) ==
    \/ _rank_score(xs[i]) > _rank_score(xs[j])
    \/ _rank_score(xs[i]) = _rank_score(xs[j]) /\ i < j

\* the position of xs that k - 1 other positions come before
RankedAt(xs, k) ==
    CHOOSE i \in 1..Len(xs) :
        Cardinality({j \in 1..Len(xs) : RanksBefore(xs, j, i)}) = k - 1

\* C12: heuristic_rank(findings, max_issues) returns the findings sorted by
\* descending score, findings of equal score in their original relative order,
\* cut to the first max_issues entries; for scenario E (scores 9, 9, 6, 3, 0)
\* and max_issues = 2 it returns the two score-9 findings in their order.
C12_RankStableDescendingCut ==
    pc = "ranked"
        => /\ result = [k \in 1..Min(max_issues, Len(findings)) |->
                           findings[RankedAt(findings, k)]]
           /\ (findings = ScenarioE /\ max_issues = 2)
                 => result = << ScenarioE[1], ScenarioE[2] >>

\* scenario E was ranked with max_issues = 2
C12_Witness ==
    /\ pc = "ranked"
    /\ findings = ScenarioE
    /\ max_issues = 2
    /\ [i \in 1..5 |-> _rank_score(findings[i])] = << 9, 9, 6, 3, 0 >>
    /\ Len(result) = 2

\* the rank of a finding's severity
SeverityRank(finding) == SEVERITY_SCORES[finding.severity.s]

\* C13: in the output of heuristic_rank a finding of higher severity always
\* comes before a finding of lower severity, whatever the two confidences and
\* the input order.
C13_HigherSeverityRanksFirst ==
    pc = "ranked"
        => \A k, l \in 1..Len(result) :
              SeverityRank(result[k]) > SeverityRank(result[l]) => k < l

\* the findings with at least one location when there is one, else all
KeepLocated(xs) ==
    LET located == SelectAt(xs, {i \in 1..Len(xs) : LocationsOrEmpty(xs[i]) # <<>>}, 1)
    IN IF located # <<>> THEN located ELSE xs

\* C14: the evidence filter in triage_findings keeps exactly the findings with
\* at least one location when there is such a finding, and all findings
\* otherwise: what reaches the rule filter is that selection of the
\* deduplicated list.
C14_EvidenceFilterKeepsLocated ==
    pc = "filtered"
        => filtered = filter_findings(KeepLocated(deduped), config, NoOverrides)

\* C15: extract_findings on a report that matches none of the known shapes
\* returns an empty list and raises no exception, whatever the JSON types of
\* the values under the probed keys.
C15_UnknownShapeYieldsNothing ==
    /\ raised = "none"
    /\ findings = <<>>

\* C16: every call of triage_findings eventually returns, even when the
\* classifier never answers: the call is bounded by a timeout on the call_llm
\* path and on the call_ollama path, and the run degrades to the heuristic path.
C16_TriageEventuallyReturns == <>(pc \in {"done", "raised"})

\* the directory a thread's run works in when no other thread runs
HomeOf(t) == IF t \in Sessions THEN "session" ELSE "server"

\* C17: triage invocations that run concurrently in threads of one process
\* need no coordination: under every interleaving each returns what it returns
\* when it runs alone, no process-wide mutable state influencing the result.
C17_ConcurrentTriageAsAlone ==
    \A t \in DOMAIN threads :
        threads[t].pc \notin {"start", "routed", "triage"}
            => threads[t].out =
                  TriageOnFallback(threads[t].input, max_issues, config,
                                   DirFiles(HomeOf(t)))

\* the CIDs with an entry in the registry
RegisteredCids == { registry_file[i].cid : i \in 1..Len(registry_file) }

\* C18: the registry is thread-safe and deduplicated by CID: after any
\* interleaving of add_entry calls it holds one entry per CID added, no entry
\* added by one call is lost to another call's write, and add_entry with a
\* registered CID leaves the registry as it is (entries are only appended).
C18_RegistryThreadSafe ==
    /\ [](\A i, j \in 1..Len(registry_file) :
             registry_file[i].cid = registry_file[j].cid => i = j)
    /\ [](\A t \in DOMAIN threads :
             (threads[t].pc = "done" /\ threads[t].cid # "none")
                => threads[t].cid \in RegisteredCids)
    /\ [][ /\ Len(registry_file') >= Len(registry_file)
           /\ SubSeq(registry_file', 1, Len(registry_file)) = registry_file
           /\ \A t \in DOMAIN threads :
                 (threads[t].pc = "read" /\ threads[t].cid \in RegisteredCids
                  /\ threads'[t].pc = "done")
                    => registry_file' = registry_file ]_vars

\* two jobs added the same CID: it is there once
C18_Witness ==
    /\ threads["job1"].pc = "done"
    /\ threads["job2"].pc = "done"
    /\ threads["job1"].cid = "cid1"
    /\ threads["job2"].cid = "cid1"
    /\ Len(registry_file) = 1
    /\ registry_file[1].cid = "cid1"

---------------------------------------------------------------------------
(* The severity and the confidence _normalize_finding gives a raw record *)

\* the first recognized of the record's severity and impact, else the default
\* severity handed in, else LOW
FirstRecognizedSeverity ==
    LET own == _normalize_severity(record.severity)
        impact == _normalize_severity(record.impact)
    IN IF ~IsNone(own) THEN own
       ELSE IF ~IsNone(impact) THEN impact
       ELSE IF ~IsNone(fallback) THEN fallback
       ELSE Str("LOW")

\* C19: the finding built from a raw record has the record's severity if it is
\* recognized, else its impact if that is recognized, else the default
\* severity handed in, else LOW
C19_SeverityFallsBackInOrder ==
    pc \notin {"raw", "canon"} => once.severity = FirstRecognizedSeverity

\* C20: the finding built from a raw record has the normalized confidence of
\* the record whenever the record has one, 0 included; the certainty is used
\* only when the record has no confidence
C20_CertaintyOnlyWithoutConfidence ==
    pc \notin {"raw", "canon"} =>
        once.confidence =
            IF ~IsNone(record.confidence)
            THEN _normalize_confidence(record.confidence)
            ELSE _normalize_confidence(record.certainty)

---------------------------------------------------------------------------
(* The generic list pass probing a report that holds lists under several
   keys: triage.py 549-566 *)

\* a record that tells where it was found
Probed(where) == [Raw0 EXCEPT !.title = Str(where)]

\* what a probed key may hold: nothing, a value that is no list, an empty
\* list, a list of one record
Held(where) == {NoList, NotAList, List(<<>>), List(<< Probed(where) >>)}

\* "results" that is missing, null, or an object with lists of its own
ProbedResults ==
    { [NoResults EXCEPT !.k = k] : k \in {"absent", "null"} }
    \cup { [NoResults EXCEPT !.k = "dict", !.findings = f, !.detectors = d] :
              f \in Held("results.findings"), d \in Held("results.detectors") }

ProbedReports ==
    { [Report0 EXCEPT !.findings = f, !.issues = i, !.detectors = d, !.results = r] :
        f \in Held("findings"), i \in Held("issues"), d \in Held("detectors"),
        r \in ProbedResults }

InitProbe ==
    /\ pc = "extract"
    /\ \E data \in ProbedReports :
          reports = << [source |-> Str("slither"), data |-> data] >>
    /\ NormIdle
    /\ ServerIdle
    /\ next_report = 1
    /\ findings = <<>>
    /\ config = EmptyFilters
    /\ detectors = <<>>
    /\ caller_filtered = <<>>
    /\ max_issues = 1
    /\ use_llm = FALSE
    /\ normalized = <<>>
    /\ deduped = <<>>
    /\ filtered = <<>>
    /\ api_key = FALSE
    /\ ollama_model = FALSE
    /\ outcome = NoOutcome
    /\ calls = 0
    /\ result = <<>>
    /\ raised = "none"

NextProbe == ExtractFindings

SpecProbe == InitProbe /\ [][NextProbe]_vars

\* some top-level key of the four holds a list
HoldsList(obj) ==
    IsList(obj.findings) \/ IsList(obj.issues) \/ IsList(obj.vulnerabilities)
    \/ IsList(obj.detectors)

\* the list the probe order names: the first top-level list, empty or not,
\* and the first list under "results" only when the top level holds none
ProbeOrderList(report_json) ==
    IF HoldsList(report_json) THEN FirstList(report_json)
    ELSE IF report_json.results.k = "dict" THEN FirstList(report_json.results)
    ELSE <<>>

\* C21: the generic pass probes findings, issues, vulnerabilities, detectors
\* at top level in that order and the first key holding a list wins, even an
\* empty one; the keys under "results" are probed only if no top-level key
\* holds a list.
C21_FirstTopLevelListWins ==
    (next_report = 2 /\ HoldsList(reports[1].data))
        => /\ raised = "none"
           /\ findings = NormalizeAll(ProbeOrderList(reports[1].data),
                                      reports[1].source, None)

---------------------------------------------------------------------------
\* C22: every location _extract_locations produces has a line that is an
\* integer or is absent: a line given as a non-digit string in an instances
\* entry, a source_mapping or an element's source_mapping never appears as
\* the location's line, and the finding is kept.
C22_LocationLineIsInteger ==
    pc \notin {"raw", "canon"} =>
        \A i \in 1..Len(once.locations.items) :
            IsNum(once.locations.items[i].line) \/ IsNone(once.locations.items[i].line)

---------------------------------------------------------------------------
\* the key lowercase(title) + "|" + lowercase(first location's file or "")
\* + "|" + str(first location's line or "")
LowercaseKey(finding) ==
    LET locations == LocationsOrEmpty(finding)
        first == IF locations = <<>> THEN Loc0 ELSE Head(locations)
    IN Lower(Or(finding.title, Str("")).s) \o "|"
       \o (IF locations = <<>> THEN "" ELSE Lower(Or(first.file, Str("")).s)) \o "|"
       \o (IF locations = <<>> THEN "" ELSE PyStr(Or(first.line, Str(""))))

\* C23: _dedupe_findings merges two findings if and only if they have the
\* same key lowercase(title) | lowercase(file) | str(line): the number of
\* output findings is the number of distinct keys in the input.
C23_OneOutputPerLowercaseKey ==
    pc = "merged" =>
        Len(deduped) = Cardinality({ LowercaseKey(findings[i]) : i \in 1..Len(findings) })

---------------------------------------------------------------------------
\* the input findings that share the key of an output finding
SharingKey(merged) ==
    { i \in 1..Len(findings) : key_for(findings[i]) = key_for(merged) }

\* the highest-scoring of them, the earliest when scores tie
PrimaryOf(merged) ==
    CHOOSE p \in SharingKey(merged) :
        \A i \in SharingKey(merged) :
            \/ _rank_score(findings[p]) > _rank_score(findings[i])
            \/ _rank_score(findings[p]) = _rank_score(findings[i]) /\ p <= i

\* a gap field of the merged finding: the primary's value when it has one,
\* else a value of another finding of the key, or none at all
GapFilled(merged, p, field) ==
    IF Truthy(findings[p][field]) THEN merged[field] = findings[p][field]
    ELSE \/ \E i \in SharingKey(merged) \ {p} :
               Truthy(findings[i][field]) /\ merged[field] = findings[i][field]
         \/ /\ \A i \in SharingKey(merged) : ~Truthy(findings[i][field])
            /\ merged[field] = findings[p][field]

\* C24: on a key collision the merged finding takes title, severity,
\* confidence, source and raw from the highest-scoring finding of the key
\* (the earliest on a tie), and each of description, impact, remediation and
\* repro keeps the primary's value whenever it has one, a secondary's value
\* being adopted only when the primary's is missing.
C24_MergeTakesPrimaryFillsGaps ==
    pc = "merged" =>
        \A k \in 1..Len(deduped) :
            LET merged == deduped[k]
                p == PrimaryOf(merged)
            IN /\ merged.title = findings[p].title
               /\ merged.severity = findings[p].severity
               /\ merged.confidence = findings[p].confidence
               /\ merged.source = findings[p].source
               /\ merged.raw = findings[p].raw
               /\ \A field \in {"description", "impact", "remediation", "repro"} :
                     GapFilled(merged, p, field)

\* three findings of one key, the primary not the first of them, both it and
\* another one with a description
C24_Witness ==
    /\ pc = "merged"
    /\ \E k \in 1..Len(deduped) :
          LET p == PrimaryOf(deduped[k])
          IN /\ Cardinality(SharingKey(deduped[k])) >= 3
             /\ \E i \in SharingKey(deduped[k]) :
                   i < p /\ Truthy(findings[i].description)
                   /\ Truthy(findings[p].description)
                   /\ findings[i].description # findings[p].description

---------------------------------------------------------------------------
\* the per-tool patterns of a finding's source
ToolPatterns(finding, c) ==
    LET source == Lower(Or(finding.source, Str("default")).s)
    IN IF source \in DOMAIN c.tools THEN c.tools[source] ELSE NoPatterns

\* the per-tool allow list if non-empty, else the default allow list
EffectiveAllow(finding, c) ==
    IF _parse_patterns(ToolPatterns(finding, c).allow) # <<>>
    THEN _parse_patterns(ToolPatterns(finding, c).allow)
    ELSE _parse_patterns(c.default.allow)

\* default-deny and per-tool-deny together
EffectiveDeny(finding, c) ==
    _parse_patterns(c.default.deny) \o _parse_patterns(ToolPatterns(finding, c).deny)

\* some pattern is, canonicalized, a substring of some canonical identifier;
\* the empty string is a substring of every identifier
SubstringOfSome(patterns, finding) ==
    \E i \in 1..Len(patterns) :
        \E identifier \in CanonicalIdentifiers(_finding_identifiers(finding)) :
            \/ _canonical_identifier(patterns[i]) = ""
            \/ IsSubstring(_canonical_identifier(patterns[i]), identifier)

\* the same for the patterns that do not canonicalize to the empty string
NonEmptySubstringOfSome(patterns, finding) ==
    \E i \in 1..Len(patterns) :
        /\ _canonical_identifier(patterns[i]) # ""
        /\ \E identifier \in CanonicalIdentifiers(_finding_identifiers(finding)) :
              IsSubstring(_canonical_identifier(patterns[i]), identifier)

\* the two thresholds let the finding through
PassesThresholds(finding, c) ==
    LET min_severity_score == _severity_threshold(c, NoOverrides)
        min_confidence == _confidence_threshold(c, NoOverrides)
        confidence == _normalize_confidence(finding.confidence)
    IN /\ IsNone(min_severity_score)
          \/ SEVERITY_SCORES[Or(_normalize_severity(finding.severity), Str("LOW")).s]
                >= min_severity_score.n
       /\ IsNone(min_confidence)
          \/ (IF IsNone(confidence) THEN 5000 ELSE confidence.n) >= min_confidence.n

\* the pattern step under a reading Matches of "a pattern matches": a deny
\* match drops the finding whatever the allow list says; with no deny match
\* the step drops it exactly when the allow list is non-empty and none of its
\* patterns matches
PatternStep(Matches(_, _)) ==
    pc = "kept" =>
        \A i \in 1..Len(findings) :
            LET finding == findings[i]
                denied == Matches(EffectiveDeny(finding, config), finding)
                allow == EffectiveAllow(finding, config)
                missed == allow # <<>> /\ ~Matches(allow, finding)
            IN /\ denied => finding \notin Range(filtered)
               /\ (~denied /\ missed) => finding \notin Range(filtered)
               /\ (~denied /\ ~missed /\ PassesThresholds(finding, config))
                     => finding \in Range(filtered)

\* C25 as stated: a finding is dropped if any pattern of default-deny and
\* per-tool-deny is, canonicalized, a substring of any of its canonical
\* identifiers, even when an allow pattern matches too; with no deny match it
\* is dropped by the pattern step iff the effective allow list is non-empty
\* and none of its patterns matches.
C25_AnyPatternMatches == PatternStep(SubstringOfSome)

\* C25 amended: the same, for the patterns whose canonical form is not empty;
\* a pattern that canonicalizes to the empty string matches nothing.
C25_NonEmptyPatternMatches == PatternStep(NonEmptySubstringOfSome)

\* a finding that a deny pattern and an allow pattern both match is dropped,
\* beside one kept that only a longer identifier's substring allows, under a
\* deny list that holds a pattern of empty canonical form
C25_Witness ==
    /\ pc = "kept"
    /\ \E i \in 1..Len(_parse_patterns(config.default.deny)) :
          _canonical_identifier(_parse_patterns(config.default.deny)[i]) = ""
    /\ \E i \in 1..Len(findings) :
          /\ NonEmptySubstringOfSome(EffectiveDeny(findings[i], config), findings[i])
          /\ NonEmptySubstringOfSome(EffectiveAllow(findings[i], config), findings[i])
          /\ findings[i] \notin Range(filtered)
    /\ \E i \in 1..Len(findings) :
          /\ findings[i].title = Str("reentrancy-eth")
          /\ findings[i] \in Range(filtered)

---------------------------------------------------------------------------
\* C26: in every pipeline run the stages occur in the order Received,
\* Normalized, Deduplicated, Filtered, ranked, Done: no finding is removed by
\* the rule and threshold filter before deduplication has run, and the
\* deduplicator runs once over the full concatenated set of extracted findings.
C26_DedupeRunsOnAllExtracted ==
    /\ pc \in {"triage", "normalized"} => Len(detectors) = Len(findings)
    /\ pc = "deduped" =>
          deduped = _dedupe_findings(
                       [i \in 1..Len(findings) |-> _normalize_existing_finding(findings[i])])

---------------------------------------------------------------------------
\* C27: in one triage_findings call the classifier is called at most once,
\* and only when use_llm is true, a credential is configured and the filtered
\* set is non-empty; an empty filtered set returns the empty list without a
\* call, and with use_llm false or nothing configured the result is
\* heuristic_rank(filtered, max_issues).
C27_ClassifierCalledAtMostOnce ==
    /\ calls <= 1
    /\ calls > 0 => (use_llm /\ (api_key \/ ollama_model) /\ filtered # <<>>)
    /\ (pc = "done" /\ filtered = <<>>) => (result = <<>> /\ calls = 0)
    /\ (pc = "done" /\ filtered # <<>> /\ (~use_llm \/ (~api_key /\ ~ollama_model)))
          => (result = heuristic_rank(filtered, max_issues) /\ calls = 0)

\* a call that returned after the classifier was called and failed, and the
\* run fell back without calling it again
C27_Witness ==
    /\ pc = "done"
    /\ calls = 1
    /\ TryRaises(outcome) \in CaughtClasses
    /\ filtered # <<>>

---------------------------------------------------------------------------
\* C28: no two findings in the output of _dedupe_findings have the same
\* dedup key, so _dedupe_findings applied to its own output merges nothing
\* and returns the same findings in the same order.
C28_DedupeOutputKeysDistinct ==
    pc = "merged" =>
        /\ \A i, j \in 1..Len(deduped) :
              key_for(deduped[i]) = key_for(deduped[j]) => i = j
        /\ DedupeRaises(deduped) = "none"
        /\ _dedupe_findings(deduped) = deduped

\* an output of two findings, one of them merged from inputs that were not
\* next to each other
C28_Witness ==
    /\ pc = "merged"
    /\ Len(deduped) = 2
    /\ Len(findings) >= 3
    /\ key_for(findings[1]) = key_for(findings[3])
    /\ key_for(findings[1]) # key_for(findings[2])

---------------------------------------------------------------------------
\* C29: triage_findings leaves its input unchanged: after the call returns,
\* on the heuristic path, on the successful classifier path and on the
\* fallback path alike, the input list, every finding in it and every
\* location record of those findings are as they were before the call.
C29_InputUnchanged ==
    pc = "done" => caller_filtered = detectors

---------------------------------------------------------------------------
\* C30: for every integer max_issues, 0 and negative values included, the
\* list triage_findings returns on the heuristic path holds at most
\* max(0, max_issues) findings.
C30_AtMostMaxIssues ==
    (pc = "done" /\ calls = 0) => Len(result) <= Max(0, max_issues)

====
